---- MODULE Spec2Model ----
(***************************************************************************)
(* Model of the Sudoku engine of sudoku-buddy (package                     *)
(* src/src/sudoku/core/sudoku_core.py and the older top-level copy         *)
(* src/sudoku_core.py), with generate_puzzle of both copies and the        *)
(* solver SudokuAI of src/src/sudoku/ai/sudoku_ai.py.                      *)
(*                                                                         *)
(* A board is a function  row -> (column -> digit)  with rows and columns  *)
(* numbered from 0 as in the source, 0 meaning empty.  The source fixes    *)
(* the grid at 9x9 with 3x3 boxes.  The operators below take the side and  *)
(* the box side from the board they are given, so that the same            *)
(* definitions run on the 9x9 fixtures of the test-suite and on 4x4 boards *)
(* (box side SmallBox), where the searches can be run on every input of a  *)
(* bounded family and for every digit order.                               *)
(***************************************************************************)
EXTENDS Integers, Sequences, FiniteSets, TLC

VARIABLES
    board,            \* the array the caller, the generator or the solver holds
    op,               \* where the program is: the call made or the loop it is in
    pre,              \* the board as it was when the call was made
    arg,              \* the arguments and random choices of the call
    ret,              \* what the call returned
    positions,        \* generate_puzzle: the positions still to visit
    cells_to_remove,  \* generate_puzzle: the removals still wanted
    possibilities,    \* SudokuAI.possibilities
    steps,            \* SudokuAI.steps
    frame,            \* SudokuAI: the locals of the propagation pass in progress
    stack,            \* the active calls of the search under way, innermost last
    depth,            \* solve_sudoku, count_solutions: the most calls active at once
    game,             \* SudokuGame: board, original, undo_stack, redo_stack
    timer             \* GameTimer: running, start_time, _timer_id; Tk's after queue

\* The variables of generate_puzzle and of SudokuAI.
others == <<positions, cells_to_remove, possibilities, steps, frame, stack>>

\* The state of the window: the game it holds and its timer.
gui == <<game, timer>>

locals == <<others, depth, gui>>

vars == <<board, op, pre, arg, ret, locals>>

\* Box side of the program (row // 3 * 3).
BoxSide == 3

\* The input families are built for the box sides 2 .. SmallBox.
SmallBox == 2

\* Cells of the small boards (the first of ClueCellList) that the bounded input
\* family may pre-fill.
MaxClueCells == 3

\* count_solutions is called with limit 1 .. MaxLimit.
MaxLimit == 3

\* Number of rotations of 1..9 tried as digit orders on the 9x9 boards.
MaxRot == 2

\* Leading cells (row-major) that the dug input boards may have cleared.
MaxHoleCells == 7

\* The searches are run on boards with at most MaxEmpty empty cells (every
\* board of side 4): a search nests one call per empty cell.
MaxEmpty == 16

\* The permutations of the digits are enumerated on boards of side up to
\* MaxPermSide: as digit orders, and as the rows of the solved grids.
MaxPermSide == 4

\* The box sides of the input families, and those whose boards are enumerated.
BoxSides == 2..SmallBox

SmallBoxSides == {k \in BoxSides : k * k <= MaxPermSide}

----------------------------------------------------------------------------
(* Boards *)

Side(b) == Cardinality(DOMAIN b)

Box(b) == CHOOSE k \in 1..Side(b) : k * k = Side(b)

Idx(b) == 0 .. (Side(b) - 1)

Cells(b) == Idx(b) \X Idx(b)

\* np.zeros((n, n))
Zeros(n) == [r \in 0..(n-1) |-> [c \in 0..(n-1) |-> 0]]

\* A board written as a tuple of rows, re-indexed from 0.
FromRows(rows) ==
    [r \in 0..(Len(rows)-1) |-> [c \in 0..(Len(rows)-1) |-> rows[r+1][c+1]]]

\* board[row, col] = v
Put(b, row, col, v) == [b EXCEPT ![row][col] = v]

Empties(b) == {x \in Cells(b) : b[x[1]][x[2]] = 0}

\* np.count_nonzero(board) == 81
IsFull(b) == Empties(b) = {}

\* The other cells of the row, the column and the box of the cell x.
Peers(b, x) ==
    LET k == Box(b)
        top == (x[1] \div k) * k
        left == (x[2] \div k) * k
    IN  ({<<x[1], c>> : c \in Idx(b)}
           \cup {<<r, x[2]>> : r \in Idx(b)}
           \cup {<<top + i, left + j>> : i \in 0..(k - 1), j \in 0..(k - 1)}) \ {x}

\* The cells whose non-zero digit occurs again in their row, column or box.
Repeated(b) ==
    {x \in Cells(b) :
        /\ b[x[1]][x[2]] # 0
        /\ \E y \in Peers(b, x) : b[y[1]][y[2]] = b[x[1]][x[2]]}

\* No non-zero digit occurs twice in a row, a column or a box.
NoRepeat(b) ==
    \A x \in Cells(b) :
        b[x[1]][x[2]] # 0 => \A y \in Peers(b, x) : b[y[1]][y[2]] # b[x[1]][x[2]]

----------------------------------------------------------------------------
(* is_valid, find_empty_cell *)

None == <<>>

\* is_valid without the test of the box.
is_valid_no_box(b, row, col, num) ==
    ~ \/ \E c \in Idx(b) : b[row][c] = num
      \/ \E r \in Idx(b) : b[r][col] = num

\* is_valid without the test of the column.
is_valid_no_col(b, row, col, num) ==
    LET k == Box(b)
        block_row == (row \div k) * k
        block_col == (col \div k) * k
    IN  ~ \/ \E c \in Idx(b) : b[row][c] = num
          \/ \E r \in block_row..(block_row + k - 1) :
                \E c \in block_col..(block_col + k - 1) : b[r][c] = num

is_valid(b, row, col, num) ==
    LET k == Box(b)
        block_row == (row \div k) * k
        block_col == (col \div k) * k
    IN  ~ \/ \E c \in Idx(b) : b[row][c] = num
          \/ \E r \in Idx(b) : b[r][col] = num
          \/ \E r \in block_row..(block_row + k - 1) :
                \E c \in block_col..(block_col + k - 1) : b[r][c] = num

\* find_empty_cell answering (0, 0) rather than None on a full board.
find_empty_cell_origin(b) ==
    LET E == Empties(b)
    IN  IF E = {} THEN <<0, 0>>
        ELSE CHOOSE x \in E : \A y \in E : x[1] < y[1] \/ (x[1] = y[1] /\ x[2] <= y[2])

\* np.argwhere lists the zero cells in row-major order; the first is taken.
find_empty_cell(b) ==
    IF \A r \in Idx(b) : \A c \in Idx(b) : b[r][c] # 0 THEN None
    ELSE LET r == CHOOSE r0 \in Idx(b) :
                     /\ \E c \in Idx(b) : b[r0][c] = 0
                     /\ \A r1 \in 0..(r0 - 1) : \A c \in Idx(b) : b[r1][c] # 0
             c == CHOOSE c0 \in Idx(b) :
                     /\ b[r][c0] = 0
                     /\ \A c1 \in 0..(c0 - 1) : b[r][c1] # 0
         IN  <<r, c>>

----------------------------------------------------------------------------
(* solve_sudoku *)

RECURSIVE solve_sudoku(_, _)
RECURSIVE solve_loop(_, _, _, _, _)

RECURSIVE solve_loop_no_undo(_, _, _, _, _)
RECURSIVE solve_loop_first_only(_, _, _, _, _)

Max(a, b) == IF a >= b THEN a ELSE b

\* The result r of a loop, whose recursions so far went `deep` calls deep.
Deepened(r, deep) == [r EXCEPT !.depth = Max(@, deep)]

\* The loop without  board[row, col] = 0  after a failed recursion.
solve_loop_no_undo(b, row, col, numbers, i) ==
    IF i > Len(numbers) THEN [ret |-> FALSE, board |-> b, depth |-> 0]
    ELSE IF is_valid(b, row, col, numbers[i])
         THEN LET r == solve_sudoku(Put(b, row, col, numbers[i]), numbers)
              IN  IF r.ret THEN r
                  ELSE Deepened(solve_loop_no_undo(r.board, row, col, numbers, i + 1),
                                r.depth)
         ELSE solve_loop_no_undo(b, row, col, numbers, i + 1)

\* The loop giving up after the first number it could place.
solve_loop_first_only(b, row, col, numbers, i) ==
    IF i > Len(numbers) THEN [ret |-> FALSE, board |-> b, depth |-> 0]
    ELSE IF is_valid(b, row, col, numbers[i])
         THEN LET r == solve_sudoku(Put(b, row, col, numbers[i]), numbers)
              IN  IF r.ret THEN r
                  ELSE [ret |-> FALSE, board |-> Put(r.board, row, col, 0),
                        depth |-> r.depth]
         ELSE solve_loop_first_only(b, row, col, numbers, i + 1)

\* The body of  for num in numbers  from the i-th number on, for the cell
\* (row, col); b is the array as the loop finds it.  depth is the largest
\* number of calls of solve_sudoku that the recursions of the loop had
\* active at once.
solve_loop(b, row, col, numbers, i) ==
    IF i > Len(numbers) THEN [ret |-> FALSE, board |-> b, depth |-> 0]
    ELSE IF is_valid(b, row, col, numbers[i])
         THEN LET r == solve_sudoku(Put(b, row, col, numbers[i]), numbers)
              IN  IF r.ret THEN r
                  ELSE Deepened(solve_loop(Put(r.board, row, col, 0), row, col,
                                           numbers, i + 1),
                                r.depth)
         ELSE solve_loop(b, row, col, numbers, i + 1)

\* solve_sudoku(board, numbers): the value returned, the array after the call,
\* and the largest number of calls active at once, this one included.
solve_sudoku(b, numbers) ==
    LET empty == find_empty_cell(b)
    IN  IF empty = None THEN [ret |-> TRUE, board |-> b, depth |-> 1]
        ELSE LET r == solve_loop(b, empty[1], empty[2], numbers, 1)
             IN  [r EXCEPT !.depth = @ + 1]

----------------------------------------------------------------------------
(* count_solutions, package copy: src/src/sudoku/core/sudoku_core.py *)

RECURSIVE count_solutions_helper(_, _, _)
RECURSIVE count_loop(_, _, _, _, _, _)

RECURSIVE count_loop_first_only(_, _, _, _, _, _)

\* The loop returning as soon as one recursion has counted a solution.
count_loop_first_only(b, row, col, num, limit, count) ==
    IF num > Side(b) THEN [count |-> count, board |-> b, depth |-> 0]
    ELSE IF is_valid(b, row, col, num)
         THEN LET r == count_solutions_helper(Put(b, row, col, num), limit, count)
              IN  IF r.count >= limit \/ r.count > count THEN r
                  ELSE Deepened(count_loop_first_only(Put(r.board, row, col, 0), row,
                                                      col, num + 1, limit, r.count),
                                r.depth)
         ELSE count_loop_first_only(b, row, col, num + 1, limit, count)

\* for num in range(1, 10)  from num on; count is the shared counter count[0],
\* depth the largest number of calls of the helper that the recursions of the
\* loop had active at once.
count_loop(b, row, col, num, limit, count) ==
    IF num > Side(b) THEN [count |-> count, board |-> b, depth |-> 0]
    ELSE IF is_valid(b, row, col, num)
         THEN LET r == count_solutions_helper(Put(b, row, col, num), limit, count)
              IN  IF r.count >= limit THEN r
                  ELSE Deepened(count_loop(Put(r.board, row, col, 0), row, col, num + 1,
                                           limit, r.count),
                                r.depth)
         ELSE count_loop(b, row, col, num + 1, limit, count)

\* The closure _count_solutions_helper(board): the counter and the array
\* it worked on, after the call, and the largest number of calls active at
\* once, this one included.
count_solutions_helper(b, limit, count) ==
    IF count >= limit THEN [count |-> count, board |-> b, depth |-> 1]
    ELSE LET empty == find_empty_cell(b)
         IN  IF empty = None THEN [count |-> count + 1, board |-> b, depth |-> 1]
             ELSE LET r == count_loop(b, empty[1], empty[2], 1, limit, count)
                  IN  [r EXCEPT !.depth = @ + 1]

\* count_solutions handing the helper the caller's array, not a copy.
count_solutions_no_copy(b, limit) ==
    LET r == count_solutions_helper(b, limit, 0)
    IN  [ret |-> r.count, board |-> r.board, searched |-> r.board, depth |-> r.depth]

\* count_solutions(board, limit): the value returned, the caller's array after
\* the call, the array the helper searched (board.copy()) and the depth the
\* helper reached.
count_solutions(b, limit) ==
    LET copy == b
        r == count_solutions_helper(copy, limit, 0)
    IN  [ret |-> r.count, board |-> b, searched |-> r.board, depth |-> r.depth]

----------------------------------------------------------------------------
(* count_solutions, top-level copy: src/sudoku_core.py *)

RECURSIVE root_count_solutions_helper(_, _, _)
RECURSIVE root_count_loop(_, _, _, _, _, _)

\* The loop that tests the counter before it resets the cell, on the caller's
\* array.
root_count_loop_test_first(b, row, col, num, limit, count) ==
    IF num > Side(b) THEN [count |-> count, board |-> b, depth |-> 0]
    ELSE IF is_valid(b, row, col, num)
         THEN LET r == root_count_solutions_helper(Put(b, row, col, num), limit, count)
              IN  IF r.count >= limit
                  THEN [count |-> r.count, board |-> r.board, depth |-> r.depth]
                  ELSE Deepened(root_count_loop(Put(r.board, row, col, 0), row, col,
                                                num + 1, limit, r.count),
                                r.depth)
         ELSE root_count_loop(b, row, col, num + 1, limit, count)

\* The loop resets the cell before it tests the counter.
root_count_loop(b, row, col, num, limit, count) ==
    IF num > Side(b) THEN [count |-> count, board |-> b, depth |-> 0]
    ELSE IF is_valid(b, row, col, num)
         THEN LET r == root_count_solutions_helper(Put(b, row, col, num), limit, count)
                  undone == Put(r.board, row, col, 0)
              IN  IF r.count >= limit
                  THEN [count |-> r.count, board |-> undone, depth |-> r.depth]
                  ELSE Deepened(root_count_loop(undone, row, col, num + 1, limit,
                                                r.count),
                                r.depth)
         ELSE root_count_loop(b, row, col, num + 1, limit, count)

root_count_solutions_helper(b, limit, count) ==
    IF count >= limit THEN [count |-> count, board |-> b, depth |-> 1]
    ELSE LET empty == find_empty_cell(b)
         IN  IF empty = None THEN [count |-> count + 1, board |-> b, depth |-> 1]
             ELSE LET r == root_count_loop(b, empty[1], empty[2], 1, limit, count)
                  IN  [r EXCEPT !.depth = @ + 1]

\* The helper is handed the caller's array itself.
root_count_solutions(b, limit) ==
    LET r == root_count_solutions_helper(b, limit, 0)
    IN  [ret |-> r.count, board |-> r.board, searched |-> r.board, depth |-> r.depth]

----------------------------------------------------------------------------
(* find_conflicts, with the numpy operations it is written in *)

\* The selection without the filter  > 0.
nonzero_all(s) == s

\* row[row > 0]
nonzero(s) == SelectSeq(s, LAMBDA v : v > 0)

Occurrences(s, v) == Cardinality({k \in DOMAIN s : s[k] = v})

RECURSIVE Ascending(_)
Ascending(S) ==
    IF S = {} THEN <<>>
    ELSE LET m == CHOOSE v \in S : \A w \in S : v <= w
         IN  <<m>> \o Ascending(S \ {m})

\* np.unique(s, return_counts=True): the sorted distinct values and, for each,
\* the number of its occurrences.
np_unique(s) ==
    LET u == Ascending({s[k] : k \in DOMAIN s})
    IN  [unique |-> u, counts |-> [k \in DOMAIN u |-> Occurrences(s, u[k])]]

\* a[mask] for a boolean array mask: numpy raises IndexError unless mask is as
\* long as a; otherwise the entries of a at the positions where mask is True.
RECURSIVE Take(_, _, _)
Take(a, mask, k) ==
    IF k > Len(a) THEN <<>>
    ELSE (IF mask[k] THEN <<a[k]>> ELSE <<>>) \o Take(a, mask, k + 1)

bool_index(a, mask) ==
    IF Len(a) # Len(mask) THEN [raised |-> TRUE, value |-> <<>>]
    ELSE [raised |-> FALSE, value |-> Take(a, mask, 1)]

Elems(s) == {s[k] : k \in DOMAIN s}

\* board[i, :] and board[:, i] as arrays.
RowOf(b, i) == [k \in 1..Side(b) |-> b[i][k - 1]]

ColOf(b, i) == [k \in 1..Side(b) |-> b[k - 1][i]]

\* duplicates = a[a > 0][np.unique(a[a > 0], return_counts=True)[1] > 1]
line_duplicates(a) ==
    LET counts == np_unique(nonzero(a)).counts
    IN  bool_index(nonzero(a), [k \in DOMAIN counts |-> counts[k] > 1])

\* np.where(a == num)[0], as indices from 0.
where_equal(a, num) == {k - 1 : k \in {j \in DOMAIN a : a[j] = num}}

\* The loop  for i in range(9)  from i on; conflicts is the set built so far.
RECURSIVE lines_from(_, _, _)
lines_from(b, i, conflicts) ==
    IF i >= Side(b) THEN [raised |-> FALSE, conflicts |-> conflicts]
    ELSE LET rd == line_duplicates(RowOf(b, i))
             cd == line_duplicates(ColOf(b, i))
             inrow == {<<i, idx>> : idx \in
                          UNION {where_equal(RowOf(b, i), num) : num \in Elems(rd.value)}}
             incol == {<<idx, i>> : idx \in
                          UNION {where_equal(ColOf(b, i), num) : num \in Elems(cd.value)}}
         IN  IF rd.raised \/ cd.raised THEN [raised |-> TRUE, conflicts |-> {}]
             ELSE lines_from(b, i + 1, conflicts \cup inrow \cup incol)

\* The block (br, bc), flattened row by row: block[block > 0] keeps that order.
BlockOf(b, br, bc) ==
    [k \in 1..Side(b) |->
        b[br * Box(b) + ((k - 1) \div Box(b))][bc * Box(b) + ((k - 1) % Box(b))]]

\* duplicates = unique[counts > 1], then np.argwhere(block == num).
block_conflicts(b, br, bc) ==
    LET u == np_unique(nonzero(BlockOf(b, br, bc)))
        dup == bool_index(u.unique, [k \in DOMAIN u.counts |-> u.counts[k] > 1])
    IN  {<<br * Box(b) + (idx \div Box(b)), bc * Box(b) + (idx % Box(b))>> :
            idx \in UNION {where_equal(BlockOf(b, br, bc), num) :
                              num \in Elems(dup.value)}}

\* find_conflicts(board): whether the call raised IndexError and, if it did
\* not, the set it returned.
find_conflicts(b) ==
    LET lines == lines_from(b, 0, {})
        blocks == UNION {block_conflicts(b, br, bc) :
                            br \in 0..(Box(b) - 1), bc \in 0..(Box(b) - 1)}
    IN  IF lines.raised THEN lines
        ELSE [raised |-> FALSE, conflicts |-> lines.conflicts \cup blocks]

----------------------------------------------------------------------------
(* What a completion of a board is, stated without any search *)

Min(a, b) == IF a <= b THEN a ELSE b

\* g fills every empty cell of b, keeps its givens and repeats no digit.
IsCompletionOf(g, b) ==
    /\ DOMAIN g = DOMAIN b
    /\ \A x \in Cells(b) :
          /\ g[x[1]][x[2]] \in 1..Side(b)
          /\ b[x[1]][x[2]] # 0 => g[x[1]][x[2]] = b[x[1]][x[2]]
    /\ NoRepeat(g)

\* The rows that may follow the rows in grid without repeating a digit in a
\* column or a box; grid is a tuple of rows, k the box side.
RowFits(grid, row, k) ==
    \A c \in 1..Len(row) : \A r \in 1..Len(grid) :
        /\ grid[r][c] # row[c]
        /\ \A c2 \in 1..Len(row) :
              ((r - 1) \div k = Len(grid) \div k /\ (c - 1) \div k = (c2 - 1) \div k)
                  => grid[r][c2] # row[c]

RECURSIVE GridsOfRows(_, _)
GridsOfRows(k, rows) ==
    IF rows = 0 THEN {<<>>}
    ELSE UNION {{Append(g, row) : row \in {p \in Permutations(1..(k * k)) : RowFits(g, p, k)}} :
                   g \in GridsOfRows(k, rows - 1)}

\* Every solved grid of the small box sides.
SmallGrids ==
    UNION {{FromRows(g) : g \in GridsOfRows(k, k * k)} : k \in SmallBoxSides}

\* The digits a completion may put in the empty cell x of b.
Candidates(b, x) ==
    1..Side(b) \ {b[y[1]][y[2]] : y \in Peers(b, x)}

RECURSIVE Fillings(_, _, _)
Fillings(b, g, E) ==
    IF E = {} THEN {g}
    ELSE LET x == CHOOSE y \in E : TRUE
         IN  UNION {Fillings(b, Put(g, x[1], x[2], d), E \ {x}) : d \in Candidates(b, x)}

\* The boards whose completions are enumerated: those with few empty cells,
\* by filling them, and the small ones, among the solved grids of their side.
Countable(b) ==
    \/ Cardinality(Empties(b)) <= MaxHoleCells
    \/ Box(b) \in SmallBoxSides

\* The completions of a countable board.
Completions(b) ==
    IF Cardinality(Empties(b)) <= MaxHoleCells
    THEN {g \in Fillings(b, b, Empties(b)) : IsCompletionOf(g, b)}
    ELSE {g \in SmallGrids : IsCompletionOf(g, b)}

----------------------------------------------------------------------------
(* Input boards *)

\* tests/conftest.py
empty_board == Zeros(BoxSide * BoxSide)

valid_board ==
    Put(Put(Put(Put(empty_board, 0, 0, 5), 0, 1, 3), 1, 4, 9), 2, 7, 6)

invalid_board == Put(Put(empty_board, 0, 0, 5), 0, 1, 5)

solved_board ==
    FromRows(<< <<5,3,4,6,7,8,9,1,2>>,
                <<6,7,2,1,9,5,3,4,8>>,
                <<1,9,8,3,4,2,5,6,7>>,
                <<8,5,9,7,6,1,4,2,3>>,
                <<4,2,6,8,5,3,7,9,1>>,
                <<7,1,3,9,2,4,8,5,6>>,
                <<9,6,1,5,3,7,2,8,4>>,
                <<2,8,7,4,1,9,6,3,5>>,
                <<3,4,5,2,8,6,1,7,9>> >>)

\* A solved grid of box side k.
PatternGrid(k) ==
    [r \in 0..(k*k - 1) |->
        [c \in 0..(k*k - 1) |-> ((k * (r % k) + (r \div k) + c) % (k * k)) + 1]]

\* g with any of its first MaxHoleCells cells cleared.
Dug(g) ==
    {[r \in Idx(g) |-> [c \in Idx(g) |->
          IF (r * Side(g) + c) \in H THEN 0 ELSE g[r][c]]] :
        H \in SUBSET (0..(MaxHoleCells - 1))}

\* g with one cell rewritten.
OneEdit(g) ==
    {Put(g, x[1], x[2], v) : x \in Cells(g), v \in 0..Side(g)}

\* The cells the clue boards pre-fill, in the order they are added. The first
\* three lie in the row, the column and the box of (0, 0): givens without a
\* repeat there can leave the first box no place for a digit while (0, 0)
\* itself still has candidates.
ClueCellList ==
    << <<0, 2>>, <<2, 0>>, <<1, 1>>, <<3, 1>>, <<0, 1>>, <<0, 0>>, <<1, 0>>, <<0, 3>> >>

\* Boards of side n whose first MaxClueCells clue cells hold anything, the
\* rest nothing.
ClueBoardsOf(n) ==
    {[r \in 0..(n - 1) |-> [c \in 0..(n - 1) |->
          IF \E k \in 1..MaxClueCells : ClueCellList[k] = <<r, c>>
          THEN f[CHOOSE k \in 1..MaxClueCells : ClueCellList[k] = <<r, c>>]
          ELSE 0]] :
        f \in [1..MaxClueCells -> 0..n]}

ClueBoards == UNION {ClueBoardsOf(k * k) : k \in SmallBoxSides}

\* The invalid-board fixture for a side n and a digit d: d at (0, 0) and (0, 1).
TwoInRow(n, d) == Put(Put(Zeros(n), 0, 0, d), 0, 1, d)

IsInvalidFixture(b) == \E d \in 1..Side(b) : b = TwoInRow(Side(b), d)

\* The fixtures of tests/conftest.py and the invalid-board fixture on the
\* other sides.
Fixtures ==
    {empty_board, valid_board, invalid_board, solved_board}
    \cup UNION {{TwoInRow(k * k, d) : d \in 1..(k * k)} : k \in BoxSides}

\* Solved grids with some cells cleared or one cell rewritten.
NearlySolved ==
    Dug(solved_board) \cup OneEdit(solved_board)
    \cup UNION {Dug(PatternGrid(k)) \cup OneEdit(PatternGrid(k)) : k \in BoxSides}

Inputs == Fixtures \cup NearlySolved \cup ClueBoards

\* list(range(1, 10)) rotated by k.
Rotated(n, k) == [i \in 1..n |-> ((i - 1 + k) % n) + 1]

Reversed(s) == [i \in 1..Len(s) |-> s[Len(s) + 1 - i]]

\* The digit orders tried: every permutation on a small board, MaxRot
\* rotations of 1..9 and their reversals on a 9x9 board.
Orders(b) ==
    IF Side(b) <= MaxPermSide THEN Permutations(1..Side(b))
    ELSE UNION {{Rotated(Side(b), k), Reversed(Rotated(Side(b), k))} : k \in 0..MaxRot}

\* The boards the searches are run on: every small board and, at 9x9, the
\* nearly solved ones.
Searchable(b) == Cardinality(Empties(b)) <= MaxEmpty

----------------------------------------------------------------------------
(* The caller: holds a board and calls the engine on it *)

\* Outside generate_puzzle and SudokuAI their locals do not exist; the engine
\* is called without a window.
NoLocals ==
    /\ positions = None
    /\ cells_to_remove = None
    /\ possibilities = None
    /\ steps = None
    /\ frame = None
    /\ stack = None
    /\ depth = None
    /\ game = None
    /\ timer = None

Init ==
    /\ \/ board \in Fixtures
       \/ board \in NearlySolved
       \/ board \in ClueBoards
    /\ op = "idle"
    /\ pre = board
    /\ arg = None
    /\ ret = None
    /\ NoLocals

\* solve_sudoku(board) or solve_sudoku(board, numbers); random.shuffle picks
\* the order when none is given.
Solve ==
    /\ op = "idle"
    /\ Searchable(board)
    /\ \E numbers \in Orders(board) :
          LET r == solve_sudoku(board, numbers)
          IN  /\ board' = r.board
              /\ arg' = numbers
              /\ ret' = r.ret
              /\ depth' = r.depth
    /\ op' = "solve_sudoku"
    /\ pre' = board
    /\ UNCHANGED <<others, gui>>

\* count_solutions(board, limit) of the package.
Count ==
    /\ op = "idle"
    /\ Searchable(board)
    /\ \E limit \in 1..MaxLimit :
          LET r == count_solutions(board, limit)
          IN  /\ board' = r.board
              /\ arg' = limit
              /\ ret' = r.ret
              /\ depth' = r.depth
    /\ op' = "count_solutions"
    /\ pre' = board
    /\ UNCHANGED <<others, gui>>

\* count_solutions(board, limit) of src/sudoku_core.py.
RootCount ==
    /\ op = "idle"
    /\ Searchable(board)
    /\ \E limit \in 1..MaxLimit :
          LET r == root_count_solutions(board, limit)
          IN  /\ board' = r.board
              /\ arg' = limit
              /\ ret' = r.ret
              /\ depth' = r.depth
    /\ op' = "root_count_solutions"
    /\ pre' = board
    /\ UNCHANGED <<others, gui>>

FindConflicts ==
    /\ op = "idle"
    /\ op' = "find_conflicts"
    /\ ret' = find_conflicts(board)
    /\ pre' = board
    /\ arg' = None
    /\ UNCHANGED <<board, locals>>

Next == Solve \/ Count \/ RootCount \/ FindConflicts

Spec == Init /\ [][Next]_vars

\* The calls of one function alone.
SpecSolve == Init /\ [][Solve]_vars

SpecCount == Init /\ [][Count \/ RootCount]_vars

SpecConflicts == Init /\ [][FindConflicts]_vars

\* One turn of the top-level copy's removal loop without the restoring branch.
root_remove_no_restore(b, x, remaining) ==
    [board |-> Put(b, x[1], x[2], 0), cells_to_remove |-> remaining - 1]

----------------------------------------------------------------------------
(* generate_puzzle, both copies *)

\* The position orders tried are  i |-> (a * i + s) mod (number of cells),
\* with a up to MaxStride (and no common factor with the number of cells)
\* and s up to MaxShift.
MaxStride == 3

MaxShift == 5

Difficulties == {"Easy", "Medium", "Hard"}

\* {'Easy': 40, 'Medium': 50, 'Hard': 60}
difficulty_levels == [Easy |-> 40, Medium |-> 50, Hard |-> 60]

\* The number of cells to clear on a board of side n: the source's number on
\* the 9x9 board, the same share of the cells on a smaller one.
CellsToRemove(difficulty, n) ==
    (difficulty_levels[difficulty] * n * n)
        \div (BoxSide * BoxSide * BoxSide * BoxSide)

\* row, col = pos // 9, pos % 9
CellOf(pos, n) == <<pos \div n, pos % n>>

RECURSIVE Gcd(_, _)
Gcd(a, b) == IF b = 0 THEN a ELSE Gcd(b, a % b)

\* The orders of the n * n positions that random.shuffle and
\* np.random.permutation are let to produce.
PositionOrders(n) ==
    {[i \in 1..(n * n) |-> CellOf((a * (i - 1) + s) % (n * n), n)] :
        a \in {x \in 1..MaxStride : Gcd(x, n * n) = 1}, s \in 0..MaxShift}

\* positions[:cells_to_remove]
Prefix(s, k) == SubSeq(s, 1, Min(k, Len(s)))

\* board[i:i+3, i:i+3] = numbers.reshape(3, 3) for the diagonal boxes, boxes[j]
\* being the value of numbers when box j is written.
DiagonalBoxes(n, k, boxes) ==
    [r \in 0..(n - 1) |-> [c \in 0..(n - 1) |->
        IF r \div k = c \div k
        THEN boxes[(r \div k) + 1][(r % k) * k + (c % k) + 1]
        ELSE 0]]

\* One turn of the package's removal loop without the restoring branch.
package_remove_no_restore(b, x) == Put(b, x[1], x[2], 0)

\* One turn of the package's removal loop (lines 116-121) at position x.
package_remove(b, x) ==
    LET temp == b[x[1]][x[2]]
        cleared == Put(b, x[1], x[2], 0)
    IN  IF count_solutions(cleared, 2).ret # 1
        THEN Put(cleared, x[1], x[2], temp)
        ELSE cleared

\* One turn of the top-level copy's removal loop that never counts down.
root_remove_no_countdown(b, x, remaining) ==
    LET backup == b[x[1]][x[2]]
        cleared == Put(b, x[1], x[2], 0)
        solution_count == root_count_solutions(cleared, 2).ret
    IN  IF solution_count # 1
        THEN [board |-> Put(cleared, x[1], x[2], backup), cells_to_remove |-> remaining]
        ELSE [board |-> cleared, cells_to_remove |-> remaining]

\* One turn of the top-level copy's removal loop (lines 102-112) at the
\* popped position x.
root_remove(b, x, remaining) ==
    LET backup == b[x[1]][x[2]]
        cleared == Put(b, x[1], x[2], 0)
        solution_count == root_count_solutions(cleared, 2).ret
    IN  IF solution_count # 1
        THEN [board |-> Put(cleared, x[1], x[2], backup), cells_to_remove |-> remaining]
        ELSE [board |-> cleared, cells_to_remove |-> remaining - 1]

\* generate_puzzle(difficulty) has been called; nothing is done yet.
GenInit ==
    /\ \E k \in SmallBoxSides : board = Zeros(k * k)
    /\ op = "generate_puzzle"
    /\ pre = None
    /\ \E copy \in {"package", "root"}, difficulty \in Difficulties :
          arg = [copy |-> copy, difficulty |-> difficulty, order |-> None]
    /\ ret = None
    /\ NoLocals

\* Package, lines 101-113: the diagonal boxes are written, solve_sudoku fills
\* the rest, the positions are drawn.  The result of solve_sudoku is not
\* looked at by the code; the fillings of the diagonal boxes that have no
\* completion, which exist on the small board, are left out.
PackageFill ==
    /\ op = "generate_puzzle"
    /\ arg.copy = "package"
    /\ \E boxes \in [1..Box(board) -> Orders(board)], numbers \in Orders(board) :
          LET r == solve_sudoku(DiagonalBoxes(Side(board), Box(board), boxes), numbers)
          IN  /\ r.ret
              /\ board' = r.board
              /\ pre' = r.board
    /\ cells_to_remove' = CellsToRemove(arg.difficulty, Side(board))
    /\ \E order \in PositionOrders(Side(board)) :
          /\ arg' = [arg EXCEPT !.order = order]
          /\ positions' = Prefix(order, cells_to_remove')
    /\ op' = "removal_loop"
    /\ UNCHANGED <<ret, possibilities, steps, frame, stack, depth, gui>>

\* Top-level copy, lines 89-99: solve_sudoku fills the empty board in a
\* shuffled digit order, the positions are shuffled.
RootFill ==
    /\ op = "generate_puzzle"
    /\ arg.copy = "root"
    /\ \E numbers \in Orders(board) :
          LET r == solve_sudoku(board, numbers)
          IN  /\ board' = r.board
              /\ pre' = r.board
    /\ cells_to_remove' = CellsToRemove(arg.difficulty, Side(board))
    /\ \E order \in PositionOrders(Side(board)) :
          /\ arg' = [arg EXCEPT !.order = order]
          /\ positions' = order
    /\ op' = "removal_loop"
    /\ UNCHANGED <<ret, possibilities, steps, frame, stack, depth, gui>>

\* Package: one turn of  for pos in positions[:cells_to_remove].
PackageRemove ==
    /\ op = "removal_loop"
    /\ arg.copy = "package"
    /\ positions # <<>>
    /\ board' = package_remove(board, Head(positions))
    /\ positions' = Tail(positions)
    /\ UNCHANGED <<op, pre, arg, ret, cells_to_remove, possibilities, steps, frame,
                   stack, depth, gui>>

\* Top-level copy: one turn of  while cells_to_remove > 0 and filled_positions.
RootRemove ==
    /\ op = "removal_loop"
    /\ arg.copy = "root"
    /\ cells_to_remove > 0
    /\ positions # <<>>
    /\ LET r == root_remove(board, positions[Len(positions)], cells_to_remove)
       IN  /\ board' = r.board
           /\ cells_to_remove' = r.cells_to_remove
    /\ positions' = SubSeq(positions, 1, Len(positions) - 1)
    /\ UNCHANGED <<op, pre, arg, ret, possibilities, steps, frame, stack,
                   depth, gui>>

\* return board, once the loop has ended.
GenReturn ==
    /\ op = "removal_loop"
    /\ \/ arg.copy = "package" /\ positions = <<>>
       \/ arg.copy = "root" /\ ~(cells_to_remove > 0 /\ positions # <<>>)
    /\ op' = "generated"
    /\ ret' = board
    /\ UNCHANGED <<board, pre, arg, locals>>

GenNext == PackageFill \/ RootFill \/ PackageRemove \/ RootRemove \/ GenReturn

SpecGenerate == GenInit /\ [][GenNext]_vars

----------------------------------------------------------------------------
(* SudokuAI: src/src/sudoku/ai/sudoku_ai.py *)

\* bits & (1 << (num - 1))
HasBit(bits, num) == (bits \div (2 ^ (num - 1))) % 2 = 1

\* bits.bit_length()
RECURSIVE bit_length(_)
bit_length(bits) == IF bits = 0 THEN 0 ELSE 1 + bit_length(bits \div 2)

\* bin(bits).count('1')
RECURSIVE bit_count(_)
bit_count(bits) == IF bits = 0 THEN 0 ELSE (bits % 2) + bit_count(bits \div 2)

\* a & b
RECURSIVE BitAnd(_, _)
BitAnd(a, b) ==
    IF a = 0 \/ b = 0 THEN 0
    ELSE (a % 2) * (b % 2) + 2 * BitAnd(a \div 2, b \div 2)

\* sum(1 << (i - 1) for i in range(1, 10) if not used[i]), from digit i on.
RECURSIVE mask_from(_, _, _)
mask_from(used, i, n) ==
    IF i > n THEN 0
    ELSE (IF i \in used THEN 0 ELSE 2 ^ (i - 1)) + mask_from(used, i + 1, n)

\* The cells of the board in the order of range(9) x range(9).
RowMajor(n) == [i \in 1..(n * n) |-> CellOf(i - 1, n)]

\* get_affected_cells(row, col)
get_affected_cells(b, row, col) ==
    LET k == Box(b)
        start_row == k * (row \div k)
        start_col == k * (col \div k)
    IN  {<<row, i>> : i \in Idx(b)}
          \cup {<<i, col>> : i \in Idx(b)}
          \cup {<<start_row + i, start_col + j>> : i \in 0..(k - 1), j \in 0..(k - 1)}

\* compute_cell_possibilities without the digits of the box.
compute_cell_possibilities_no_box(b, row, col) ==
    LET used == {b[row][i] : i \in Idx(b)} \cup {b[i][col] : i \in Idx(b)}
    IN  mask_from(used, 1, Side(b))

\* compute_cell_possibilities(row, col)
compute_cell_possibilities(b, row, col) ==
    LET used == {b[x[1]][x[2]] : x \in get_affected_cells(b, row, col)}
    IN  mask_from(used, 1, Side(b))

\* update_possibilities(affected_cells) on the board b and the masks poss.
update_possibilities(b, poss, affected_cells) ==
    [r \in Idx(b) |-> [c \in Idx(b) |->
        IF <<r, c>> \in affected_cells
        THEN IF b[r][c] = 0 THEN compute_cell_possibilities(b, r, c) ELSE 0
        ELSE poss[r][c]]]

\* SudokuAI(board): the solver's fields after __init__.
SudokuAI(b) ==
    [board |-> b,
     steps |-> <<>>,
     possibilities |->
        update_possibilities(b, [r \in Idx(b) |-> [c \in Idx(b) |-> 2 ^ Side(b) - 1]],
                             Cells(b))]

\* A placement that logs the step and leaves the cell empty.
Place_no_write(s, row, col, num, technique) ==
    [board |-> s.board,
     steps |-> Append(s.steps, <<row, col, num, technique>>),
     possibilities |-> s.possibilities]

\* A placement that appends nothing to the log.
Place_no_log(s, row, col, num, technique) ==
    LET b == Put(s.board, row, col, num)
    IN  [board |-> b,
         steps |-> s.steps,
         possibilities |->
            update_possibilities(b, s.possibilities, get_affected_cells(b, row, col))]

\* A placement that leaves the masks as they were.
Place_no_update(s, row, col, num, technique) ==
    [board |-> Put(s.board, row, col, num),
     steps |-> Append(s.steps, <<row, col, num, technique>>),
     possibilities |-> s.possibilities]

\* self.board[row, col] = num; self.steps.append(...); update_possibilities(
\* get_affected_cells(row, col))
Place(s, row, col, num, technique) ==
    LET b == Put(s.board, row, col, num)
    IN  [board |-> b,
         steps |-> Append(s.steps, <<row, col, num, technique>>),
         possibilities |->
            update_possibilities(b, s.possibilities, get_affected_cells(b, row, col))]

\* The loop of naked_singles (lines 66-73) over the cells found by np.argwhere,
\* from the i-th on.
RECURSIVE naked_loop(_, _, _, _)
naked_loop(s, singles, i, progress) ==
    IF i > Len(singles) THEN [state |-> s, progress |-> progress]
    ELSE LET row == singles[i][1]
             col == singles[i][2]
             bits == s.possibilities[row][col]
             num == bit_length(bits)
         IN  naked_loop(Place(s, row, col, num, "Naked Single"), singles, i + 1, TRUE)

\* The test without `possibilities != 0`.
IsSingle_or_zero(bits) == BitAnd(bits, bits - 1) = 0

\* (possibilities != 0) & ((possibilities & (possibilities - 1)) == 0)
IsSingle(bits) == bits # 0 /\ BitAnd(bits, bits - 1) = 0

naked_singles(s) ==
    LET Single(x) == IsSingle(s.possibilities[x[1]][x[2]])
        singles == SelectSeq(RowMajor(Side(s.board)), Single)
    IN  naked_loop(s, singles, 1, FALSE)

\* The keys of counts in the order they were inserted: by the first cell of
\* the unit that has the digit as a candidate, then by digit.
KeysInOrder(keys, rank) ==
    [i \in 1..Cardinality(keys) |->
        CHOOSE num \in keys :
            Cardinality({other \in keys : rank[other] < rank[num]}) = i - 1]

\* for num, positions in counts.items(): if len(positions) == 1: place it.
\* counts maps a digit to the indices of the unit's cells that had it as a
\* candidate when the unit was scanned.
RECURSIVE hidden_place(_, _, _, _, _, _, _)
hidden_place(s, unit, counts, keys, i, technique, progress) ==
    IF i > Len(keys) THEN [state |-> s, progress |-> progress]
    ELSE LET num == keys[i]
             where == counts[num]
         IN  IF Cardinality(where) = 1
             THEN LET x == unit[CHOOSE j \in where : TRUE]
                  IN  hidden_place(Place(s, x[1], x[2], num, technique),
                                   unit, counts, keys, i + 1, technique, TRUE)
             ELSE hidden_place(s, unit, counts, keys, i + 1, technique, progress)

\* counts of one unit (lines 82-87): a digit is mapped to the indices of the
\* unit's cells that have it as a candidate in the masks of s.
unit_counts(s, unit) ==
    [num \in 1..Side(s.board) |->
        {j \in 1..Len(unit) : HasBit(s.possibilities[unit[j][1]][unit[j][2]], num)}]

\* counts.items(): the digits that are keys of counts, in insertion order.
unit_keys(s, unit) ==
    LET n == Side(s.board)
        counts == unit_counts(s, unit)
        keys == {num \in 1..n : counts[num] # {}}
        rank == [num \in keys |->
                    (CHOOSE j \in counts[num] : \A j2 \in counts[num] : j <= j2) * (n + 1)
                        + num]
    IN  KeysInOrder(keys, rank)

\* One unit of hidden_singles: counts is built from the masks, then used.
hidden_unit(s, unit, technique, progress) ==
    hidden_place(s, unit, unit_counts(s, unit), unit_keys(s, unit), 1, technique, progress)

RowUnit(n, idx) == [j \in 1..n |-> <<idx, j - 1>>]

ColUnit(n, idx) == [j \in 1..n |-> <<j - 1, idx>>]

\* start_row, start_col = 3 * (idx // 3), 3 * (idx % 3)
BoxUnit(n, k, idx) ==
    [j \in 1..n |-> <<k * (idx \div k) + ((j - 1) \div k), k * (idx % k) + ((j - 1) % k)>>]

\* for idx in range(9): the row, the column and the box idx, from idx on.
RECURSIVE hidden_loop(_, _, _)
hidden_loop(s, idx, progress) ==
    LET n == Side(s.board)
    IN  IF idx >= n THEN [state |-> s, progress |-> progress]
        ELSE LET rows == hidden_unit(s, RowUnit(n, idx), "Hidden Single in Row", progress)
                 cols == hidden_unit(rows.state, ColUnit(n, idx),
                                     "Hidden Single in Column", rows.progress)
                 boxes == hidden_unit(cols.state, BoxUnit(n, Box(s.board), idx),
                                      "Hidden Single in Box", cols.progress)
             IN  hidden_loop(boxes.state, idx + 1, boxes.progress)

hidden_singles(s) == hidden_loop(s, 0, FALSE)

\* is_solved()
is_solved(s) == \A x \in Cells(s.board) : s.board[x[1]][x[2]] # 0

\* The scan with `options <= min_options`: the last of the cells with the
\* fewest candidates.
RECURSIVE fewest_scan_last(_, _, _, _, _)
fewest_scan_last(poss, empty, i, min_options, min_cell) ==
    IF i > Len(empty) THEN min_cell
    ELSE LET options == bit_count(poss[empty[i][1]][empty[i][2]])
         IN  IF options <= min_options
             THEN IF options = 1 THEN empty[i]
                  ELSE fewest_scan_last(poss, empty, i + 1, options, empty[i])
             ELSE fewest_scan_last(poss, empty, i + 1, min_options, min_cell)

\* The scan of find_empty_cell_with_fewest_possibilities over the empty cells.
RECURSIVE fewest_scan(_, _, _, _, _)
fewest_scan(poss, empty, i, min_options, min_cell) ==
    IF i > Len(empty) THEN min_cell
    ELSE LET options == bit_count(poss[empty[i][1]][empty[i][2]])
         IN  IF options < min_options
             THEN IF options = 1 THEN empty[i]
                  ELSE fewest_scan(poss, empty, i + 1, options, empty[i])
             ELSE fewest_scan(poss, empty, i + 1, min_options, min_cell)

find_empty_cell_with_fewest_possibilities(b, poss) ==
    LET IsEmpty(x) == b[x[1]][x[2]] = 0
    IN  fewest_scan(poss, SelectSeq(RowMajor(Side(b)), IsEmpty), 1, Side(b) + 1, None)

\* Every digit, whatever the mask.
DigitsOf_any(bits, n) == [i \in 1..n |-> i]

\* [num for num in range(1, 10) if bits & (1 << (num - 1))]
DigitsOf(bits, n) ==
    LET Set(num) == HasBit(bits, num)
    IN  SelectSeq([i \in 1..n |-> i], Set)

\* An undo that resets the cell and leaves the masks as they are.
Undo_no_update(s, row, col) ==
    [s EXCEPT !.board = Put(s.board, row, col, 0)]

\* self.board[row, col] = 0; self.update_possibilities(affected_cells)
Undo(s, row, col) ==
    LET b == Put(s.board, row, col, 0)
    IN  [s EXCEPT !.board = b,
                  !.possibilities =
                      update_possibilities(b, @, get_affected_cells(b, row, col))]

RECURSIVE backtrack_solve(_)
RECURSIVE backtrack_loop(_, _, _, _, _)

\* backtrack_solve that gives up after the first digit.
RECURSIVE backtrack_loop_first_only(_, _, _, _, _)
backtrack_loop_first_only(s, row, col, nums, i) ==
    IF i > Len(nums) \/ i > 1 THEN [ret |-> FALSE, state |-> s]
    ELSE LET r == backtrack_solve(Place(s, row, col, nums[i], "Backtracking with MRV"))
         IN  IF r.ret THEN r
             ELSE backtrack_loop_first_only(Undo(r.state, row, col), row, col, nums,
                                            i + 1)

\* for num in nums (lines 157-166), from the i-th digit on.
backtrack_loop(s, row, col, nums, i) ==
    IF i > Len(nums) THEN [ret |-> FALSE, state |-> s]
    ELSE LET r == backtrack_solve(Place(s, row, col, nums[i], "Backtracking with MRV"))
         IN  IF r.ret THEN r
             ELSE backtrack_loop(Undo(r.state, row, col), row, col, nums, i + 1)

backtrack_solve(s) ==
    IF is_solved(s) THEN [ret |-> TRUE, state |-> s]
    ELSE LET poss == update_possibilities(s.board, s.possibilities, Cells(s.board))
             cell == find_empty_cell_with_fewest_possibilities(s.board, poss)
             s1 == [s EXCEPT !.possibilities = poss]
         IN  IF cell = None THEN [ret |-> FALSE, state |-> s1]
             ELSE backtrack_loop(s1, cell[1], cell[2],
                                 DigitsOf(poss[cell[1]][cell[2]], Side(s.board)), 1)

\* while True: progress = self.naked_singles() or self.hidden_singles()
RECURSIVE propagate(_)
propagate(s) ==
    LET naked == naked_singles(s)
    IN  IF naked.progress THEN propagate(naked.state)
        ELSE LET hidden == hidden_singles(s)
             IN  IF hidden.progress THEN propagate(hidden.state) ELSE s

\* SudokuAI.solve()
ai_solve(s) ==
    LET stalled == propagate(s)
    IN  IF is_solved(stalled) THEN [ret |-> TRUE, state |-> stalled]
        ELSE backtrack_solve(stalled)

\* The cells the solver's input boards pre-fill, in the order they are added:
\* with the first three, two empty cells of the first row can be left the
\* same single candidate.
AIClueCellList ==
    << <<0, 2>>, <<0, 3>>, <<1, 0>>, <<2, 1>>, <<3, 3>>, <<1, 2>> >>

AIClueBoardsOf(n) ==
    {[r \in 0..(n - 1) |-> [c \in 0..(n - 1) |->
          IF \E k \in 1..MaxClueCells : AIClueCellList[k] = <<r, c>>
          THEN f[CHOOSE k \in 1..MaxClueCells : AIClueCellList[k] = <<r, c>>]
          ELSE 0]] :
        f \in [1..MaxClueCells -> 0..n]}

AIClueBoards == UNION {AIClueBoardsOf(k * k) : k \in SmallBoxSides}

\* The sparse input boards keep MaxKeptCells cells of a solved grid.
MaxKeptCells == 4

\* g with every cell cleared but MaxKeptCells of them.
Sparse(g) ==
    {[r \in Idx(g) |-> [c \in Idx(g) |-> IF <<r, c>> \in kept THEN g[r][c] ELSE 0]] :
        kept \in {S \in SUBSET Cells(g) : Cardinality(S) = MaxKeptCells}}

SparseBoards == UNION {Sparse(PatternGrid(k)) : k \in SmallBoxSides}

\* A caller that holds a board and is about to build a SudokuAI on it.
AIInit ==
    /\ \/ board \in Fixtures
       \/ board \in NearlySolved
       \/ board \in ClueBoards
       \/ board \in AIClueBoards
       \/ board \in SparseBoards
    /\ op = "idle"
    /\ pre = board
    /\ arg = None
    /\ ret = None
    /\ NoLocals

\* ai = SudokuAI(board); ai.solve().  The solver works on the caller's array.
AISolve ==
    /\ op = "idle"
    /\ Searchable(board)
    /\ LET r == ai_solve(SudokuAI(board))
       IN  /\ board' = r.state.board
           /\ possibilities' = r.state.possibilities
           /\ steps' = r.state.steps
           /\ ret' = r.ret
    /\ op' = "SudokuAI.solve"
    /\ pre' = board
    /\ UNCHANGED <<arg, positions, cells_to_remove, frame, stack, depth, gui>>

SpecAI == AIInit /\ [][AISolve]_vars

----------------------------------------------------------------------------
(* SudokuAI.solve, one placement, scan, call or return at a time *)

\* The solver's fields in the current state.
Self == [board |-> board, steps |-> steps, possibilities |-> possibilities]

\* The solver's fields become those of s.
Becomes(s) ==
    /\ board' = s.board
    /\ steps' = s.steps
    /\ possibilities' = s.possibilities

\* The units of hidden_singles in the order they are scanned: for idx in
\* range(9): row idx, column idx, box idx.
UnitOf(b, u) ==
    LET idx == u \div 3
    IN  IF u % 3 = 0 THEN RowUnit(Side(b), idx)
        ELSE IF u % 3 = 1 THEN ColUnit(Side(b), idx)
        ELSE BoxUnit(Side(b), Box(b), idx)

TechniqueOf(u) ==
    IF u % 3 = 0 THEN "Hidden Single in Row"
    ELSE IF u % 3 = 1 THEN "Hidden Single in Column"
    ELSE "Hidden Single in Box"

\* naked_singles that also takes the cells with two candidates.
naked_todo_guess(s) ==
    LET Single(x) == bit_count(s.possibilities[x[1]][x[2]]) \in {1, 2}
        singles == SelectSeq(RowMajor(Side(s.board)), Single)
    IN  [i \in 1..Len(singles) |-> [row |-> singles[i][1], col |-> singles[i][2]]]

\* The placements naked_singles is about to make: the cells np.argwhere found.
naked_todo(s) ==
    LET Single(x) == IsSingle(s.possibilities[x[1]][x[2]])
        singles == SelectSeq(RowMajor(Side(s.board)), Single)
    IN  [i \in 1..Len(singles) |-> [row |-> singles[i][1], col |-> singles[i][2]]]

\* hidden_singles that makes placements in the rows only.
hidden_todo_rows_only(s, u) ==
    LET unit == UnitOf(s.board, u)
        counts == unit_counts(s, unit)
        One(num) == Cardinality(counts[num]) = 1 /\ u % 3 = 0
        nums == SelectSeq(unit_keys(s, unit), One)
    IN  [i \in 1..Len(nums) |->
            LET x == unit[CHOOSE j \in counts[nums[i]] : TRUE]
            IN  [row |-> x[1], col |-> x[2], num |-> nums[i], unit |-> u]]

\* The placements hidden_singles is about to make in unit u: the items of
\* counts with len(positions) == 1, with the cell positions[0].
hidden_todo(s, u) ==
    LET unit == UnitOf(s.board, u)
        counts == unit_counts(s, unit)
        One(num) == Cardinality(counts[num]) = 1
        nums == SelectSeq(unit_keys(s, unit), One)
    IN  [i \in 1..Len(nums) |->
            LET x == unit[CHOOSE j \in counts[nums[i]] : TRUE]
            IN  [row |-> x[1], col |-> x[2], num |-> nums[i], unit |-> u]]

\* Cells pre-filled in a third family of input boards: with the first three
\* and no digit repeated, the search can reach a board where an empty cell
\* with one candidate comes before an empty cell with none.
MRVClueCellList ==
    << <<0, 0>>, <<2, 1>>, <<3, 2>>, <<1, 3>>, <<0, 1>>, <<3, 0>> >>

MRVClueBoardsOf(n) ==
    {[r \in 0..(n - 1) |-> [c \in 0..(n - 1) |->
          IF \E k \in 1..MaxClueCells : MRVClueCellList[k] = <<r, c>>
          THEN f[CHOOSE k \in 1..MaxClueCells : MRVClueCellList[k] = <<r, c>>]
          ELSE 0]] :
        f \in [1..MaxClueCells -> 0..n]}

MRVClueBoards == UNION {MRVClueBoardsOf(k * k) : k \in SmallBoxSides}

\* The boards the stepwise solver is started on.
AIStepInit ==
    /\ \/ board \in NearlySolved
       \/ board \in ClueBoards
       \/ board \in AIClueBoards
       \/ board \in MRVClueBoards
       \/ board \in SparseBoards
    /\ op = "idle"
    /\ pre = board
    /\ arg = None
    /\ ret = None
    /\ NoLocals

\* ai = SudokuAI(board); ai.solve() is entered and stands at `while True`.
AIConstruct ==
    /\ op = "idle"
    /\ Searchable(board)
    /\ Becomes(SudokuAI(board))
    /\ op' = "solve"
    /\ pre' = board
    /\ frame' = None
    /\ stack' = <<>>
    /\ UNCHANGED <<arg, ret, positions, cells_to_remove, depth, gui>>

\* naked_singles is called (line 31) and finds its singles (lines 64-65).
\* entry is the solver as the round of the while loop began.
NakedScan ==
    /\ op = "solve"
    /\ op' = "naked_singles"
    /\ frame' = [todo |-> naked_todo(Self), progress |-> FALSE, unit |-> 0,
                 entry |-> Self]
    /\ UNCHANGED <<board, pre, arg, ret, positions, cells_to_remove, possibilities,
                   steps, stack, depth, gui>>

\* One turn of `for row, col in singles` (lines 66-73).
NakedPlace ==
    /\ op = "naked_singles"
    /\ frame.todo # <<>>
    /\ LET x == Head(frame.todo)
           bits == possibilities[x.row][x.col]
           num == bit_length(bits)
       IN  Becomes(Place(Self, x.row, x.col, num, "Naked Single"))
    /\ frame' = [frame EXCEPT !.todo = Tail(@), !.progress = TRUE]
    /\ UNCHANGED <<op, pre, arg, ret, positions, cells_to_remove, stack, depth, gui>>

\* naked_singles returns progress (line 74); `or` calls hidden_singles when it
\* is false, else the while loop goes round.
NakedReturn ==
    /\ op = "naked_singles"
    /\ frame.todo = <<>>
    /\ IF frame.progress
       THEN op' = "solve" /\ frame' = frame
       ELSE op' = "hidden_singles" /\ frame' = [frame EXCEPT !.unit = 0]
    /\ UNCHANGED <<board, pre, arg, ret, positions, cells_to_remove, possibilities,
                   steps, stack, depth, gui>>

\* hidden_singles builds counts for its next unit (lines 82-87, 98-103,
\* 115-121).
HiddenScan ==
    /\ op = "hidden_singles"
    /\ frame.todo = <<>>
    /\ frame.unit < 3 * Side(board)
    /\ frame' = [frame EXCEPT !.todo = hidden_todo(Self, frame.unit), !.unit = @ + 1]
    /\ UNCHANGED <<board, op, pre, arg, ret, positions, cells_to_remove, possibilities,
                   steps, stack, depth, gui>>

\* One placement of `for num, positions in counts.items()` (lines 88-94,
\* 104-110, 122-129).
HiddenPlace ==
    /\ op = "hidden_singles"
    /\ frame.todo # <<>>
    /\ LET x == Head(frame.todo)
       IN  Becomes(Place(Self, x.row, x.col, x.num, TechniqueOf(x.unit)))
    /\ frame' = [frame EXCEPT !.todo = Tail(@), !.progress = TRUE]
    /\ UNCHANGED <<op, pre, arg, ret, positions, cells_to_remove, stack, depth, gui>>

\* hidden_singles returns progress (line 130): the while loop goes round, or
\* `if not progress: break`.
HiddenReturn ==
    /\ op = "hidden_singles"
    /\ frame.todo = <<>>
    /\ frame.unit = 3 * Side(board)
    /\ op' = IF frame.progress THEN "solve" ELSE "break"
    /\ UNCHANGED <<board, pre, arg, ret, locals>>

\* A call of backtrack_solve that has just been made: entry is the solver as
\* the call found it.
Call(s) == [entry |-> s, cell |-> None, nums |-> <<>>, i |-> 0]

\* After the loop (lines 34-37): return True, or call backtrack_solve.
SolveReturn ==
    /\ op = "break"
    /\ IF is_solved(Self)
       THEN op' = "SudokuAI.solve" /\ ret' = TRUE /\ stack' = stack
       ELSE op' = "backtrack_solve" /\ ret' = ret /\ stack' = <<Call(Self)>>
    /\ UNCHANGED <<board, pre, arg, positions, cells_to_remove, possibilities, steps,
                   frame, depth, gui>>

\* The innermost call.
Top == stack[Len(stack)]

\* backtrack_solve up to its loop (lines 146-155).
BacktrackEnter ==
    /\ op = "backtrack_solve"
    /\ IF is_solved(Self)
       THEN /\ op' = "return"
            /\ ret' = TRUE
            /\ UNCHANGED <<possibilities, stack>>
       ELSE LET poss == update_possibilities(board, possibilities, Cells(board))
                cell == find_empty_cell_with_fewest_possibilities(board, poss)
            IN  /\ possibilities' = poss
                /\ IF cell = None
                   THEN op' = "return" /\ ret' = FALSE /\ stack' = stack
                   ELSE /\ op' = "for"
                        /\ ret' = ret
                        /\ stack' = [stack EXCEPT ![Len(stack)] =
                               [@ EXCEPT !.cell = cell,
                                         !.nums = DigitsOf(poss[cell[1]][cell[2]],
                                                           Side(board)),
                                         !.i = 1]]
    /\ UNCHANGED <<board, pre, arg, positions, cells_to_remove, steps, frame, depth, gui>>

\* One digit of `for num in nums` is placed and backtrack_solve called on it
\* (lines 157-162).
BacktrackPlace ==
    /\ op = "for"
    /\ Top.i <= Len(Top.nums)
    /\ LET s == Place(Self, Top.cell[1], Top.cell[2], Top.nums[Top.i],
                      "Backtracking with MRV")
       IN  /\ Becomes(s)
           /\ stack' = Append(stack, Call(s))
    /\ op' = "backtrack_solve"
    /\ UNCHANGED <<pre, arg, ret, positions, cells_to_remove, frame, depth, gui>>

\* The digits are used up: return False (line 166).
BacktrackFail ==
    /\ op = "for"
    /\ Top.i > Len(Top.nums)
    /\ op' = "return"
    /\ ret' = FALSE
    /\ UNCHANGED <<board, pre, arg, positions, cells_to_remove, possibilities, steps,
                   frame, stack, depth, gui>>

\* The innermost call returns ret to its caller: solve returns it (line 37);
\* a calling backtrack_solve returns True (line 163) or undoes its digit
\* (lines 164-165) and goes on with the next.
BacktrackReturn ==
    /\ op = "return"
    /\ LET callers == SubSeq(stack, 1, Len(stack) - 1)
       IN  IF callers = <<>>
           THEN /\ op' = "SudokuAI.solve"
                /\ stack' = callers
                /\ UNCHANGED <<board, possibilities, steps>>
           ELSE LET caller == callers[Len(callers)]
                IN  IF ret
                    THEN /\ op' = "return"
                         /\ stack' = callers
                         /\ UNCHANGED <<board, possibilities, steps>>
                    ELSE /\ op' = "for"
                         /\ Becomes(Undo(Self, caller.cell[1], caller.cell[2]))
                         /\ stack' = [callers EXCEPT ![Len(callers)] =
                                          [@ EXCEPT !.i = @ + 1]]
    /\ UNCHANGED <<pre, arg, ret, positions, cells_to_remove, frame, depth, gui>>

AIStepNext ==
    \/ AIConstruct
    \/ NakedScan \/ NakedPlace \/ NakedReturn
    \/ HiddenScan \/ HiddenPlace \/ HiddenReturn
    \/ SolveReturn
    \/ BacktrackEnter \/ BacktrackPlace \/ BacktrackFail \/ BacktrackReturn

SpecAISteps == AIStepInit /\ [][AIStepNext]_vars

\* The boards the run to completion is followed on: givens at the cells of
\* MRVClueCellList, with and without a repeat, and the small solved grids with
\* cells dug out.
AIFairBoards == MRVClueBoards \cup UNION {Dug(PatternGrid(k)) : k \in SmallBoxSides}

\* ret is a boolean from the start: False, nothing having succeeded yet.
AIFairInit ==
    /\ board \in AIFairBoards
    /\ op = "idle"
    /\ pre = board
    /\ arg = None
    /\ ret = FALSE
    /\ NoLocals

\* solve is one thread running to completion: a step that can be taken is
\* taken.
SpecAIStepsFair == AIFairInit /\ [][AIStepNext]_vars /\ WF_vars(AIStepNext)

\* A caller that holds a board and makes any one of the calls on it.
SpecCalls == Init /\ [][Next \/ AIStepNext]_vars

-----------------------------------------------------------------------------
(* Step 1 of generate_puzzle, one call, loop turn or return of solve_sudoku
   at a time *)

\* The permutations written into the diagonal boxes in the runs followed.
BoxOrders(n) == Orders(Zeros(n))

\* generate_puzzle has been called: the package copy on the 9x9 board, with
\* the permutations of its three diagonal boxes drawn; the top-level copy on
\* the 9x9 and on the small boards.
FillInit ==
    /\ \/ /\ board = Zeros(BoxSide * BoxSide)
          /\ \E boxes \in [1..BoxSide -> BoxOrders(BoxSide * BoxSide)],
                numbers \in Orders(board) :
                arg = [copy |-> "package", boxes |-> boxes, numbers |-> numbers]
       \/ /\ \E k \in SmallBoxSides \cup {BoxSide} : board = Zeros(k * k)
          /\ \E numbers \in Orders(board) :
                arg = [copy |-> "root", boxes |-> None, numbers |-> numbers]
    /\ op = "generate_puzzle"
    /\ pre = board
    /\ ret = None
    /\ NoLocals

\* Package lines 100-108, top-level lines 87-91: the board is prepared and
\* solve_sudoku called on it.
FillStart ==
    /\ op = "generate_puzzle"
    /\ board' = IF arg.copy = "package"
                THEN DiagonalBoxes(Side(board), Box(board), arg.boxes)
                ELSE board
    /\ pre' = board'
    /\ stack' = <<Call(None)>>
    /\ op' = "solve_sudoku"
    /\ UNCHANGED <<arg, ret, positions, cells_to_remove, possibilities, steps, frame,
                   depth, gui>>

\* solve_sudoku up to its loop (package lines 20-26).
FillEnter ==
    /\ op = "solve_sudoku"
    /\ LET empty == find_empty_cell(board)
       IN  IF empty = None
           THEN op' = "solve_sudoku return" /\ ret' = TRUE /\ stack' = stack
           ELSE /\ op' = "solve_sudoku for"
                /\ ret' = ret
                /\ stack' = [stack EXCEPT ![Len(stack)] =
                                [@ EXCEPT !.cell = empty, !.nums = arg.numbers, !.i = 1]]
    /\ UNCHANGED <<board, pre, arg, positions, cells_to_remove, possibilities, steps,
                   frame, depth, gui>>

\* One turn of `for num in numbers` (lines 28-31): a valid digit is written and
\* solve_sudoku called, an invalid one passed over.
FillTry ==
    /\ op = "solve_sudoku for"
    /\ Top.i <= Len(Top.nums)
    /\ IF is_valid(board, Top.cell[1], Top.cell[2], Top.nums[Top.i])
       THEN /\ board' = Put(board, Top.cell[1], Top.cell[2], Top.nums[Top.i])
            /\ stack' = Append(stack, Call(None))
            /\ op' = "solve_sudoku"
       ELSE /\ stack' = [stack EXCEPT ![Len(stack)] = [@ EXCEPT !.i = @ + 1]]
            /\ UNCHANGED <<board, op>>
    /\ UNCHANGED <<pre, arg, ret, positions, cells_to_remove, possibilities, steps,
                   frame, depth, gui>>

\* The digits are used up: return False (line 34).
FillFail ==
    /\ op = "solve_sudoku for"
    /\ Top.i > Len(Top.nums)
    /\ op' = "solve_sudoku return"
    /\ ret' = FALSE
    /\ UNCHANGED <<board, pre, arg, locals>>

\* The innermost call of solve_sudoku returns ret: to the caller of the
\* outermost call, which goes on at `next`; or to solve_sudoku, which returns
\* True (line 32) or takes its digit back (line 33) and goes on with the next.
SolveReturnsTo(next) ==
    /\ op = "solve_sudoku return"
    /\ LET callers == SubSeq(stack, 1, Len(stack) - 1)
       IN  IF callers = <<>>
           THEN /\ op' = next
                /\ stack' = callers
                /\ board' = board
           ELSE LET caller == callers[Len(callers)]
                IN  IF ret
                    THEN /\ op' = "solve_sudoku return"
                         /\ stack' = callers
                         /\ board' = board
                    ELSE /\ op' = "solve_sudoku for"
                         /\ board' = Put(board, caller.cell[1], caller.cell[2], 0)
                         /\ stack' = [callers EXCEPT ![Len(callers)] =
                                          [@ EXCEPT !.i = @ + 1]]
    /\ UNCHANGED <<pre, arg, ret, positions, cells_to_remove, possibilities, steps,
                   frame, depth, gui>>

\* solve_sudoku returns to generate_puzzle, which does not look at the result
\* and goes on to the removal.
FillReturn == SolveReturnsTo("removal_loop")

FillNext == FillStart \/ FillEnter \/ FillTry \/ FillFail \/ FillReturn

SpecFill == FillInit /\ [][FillNext]_vars

-----------------------------------------------------------------------------
(* solve_sudoku and count_solutions called on a board, one call, loop turn or
   return at a time *)

\* solve_sudoku(board, numbers) is called.
SolveCall ==
    /\ op = "idle"
    /\ Searchable(board)
    /\ \E numbers \in Orders(board) :
          arg' = [fn |-> "solve_sudoku", numbers |-> numbers]
    /\ pre' = board
    /\ stack' = <<Call(None)>>
    /\ op' = "solve_sudoku"
    /\ UNCHANGED <<board, ret, positions, cells_to_remove, possibilities, steps, frame,
                   depth, gui>>

\* The outermost solve_sudoku returns to its caller.
SolveReturned == SolveReturnsTo("solve_sudoku returned")

\* count_solutions(board, limit) is called, in either copy: count = [0], and
\* the helper is called on the board (top-level copy, line 39) or on a copy of
\* it (package, line 53).  ret is count[0].
CountCall ==
    /\ op = "idle"
    /\ Searchable(board)
    /\ \E fn \in {"count_solutions", "root_count_solutions"}, limit \in 1..MaxLimit :
          arg' = [fn |-> fn, limit |-> limit]
    /\ pre' = board
    /\ ret' = 0
    /\ stack' = <<Call(None)>>
    /\ op' = "_count_solutions_helper"
    /\ UNCHANGED <<board, positions, cells_to_remove, possibilities, steps, frame,
                   depth, gui>>

\* The helper up to its loop (package lines 38-45, top-level lines 44-50).
CountEnter ==
    /\ op = "_count_solutions_helper"
    /\ LET empty == find_empty_cell(board)
       IN  IF ret >= arg.limit
           THEN op' = "helper return" /\ ret' = ret /\ stack' = stack
           ELSE IF empty = None
           THEN op' = "helper return" /\ ret' = ret + 1 /\ stack' = stack
           ELSE /\ op' = "helper for"
                /\ ret' = ret
                /\ stack' = [stack EXCEPT ![Len(stack)] =
                                [@ EXCEPT !.cell = empty,
                                          !.nums = [i \in 1..Side(board) |-> i],
                                          !.i = 1]]
    /\ UNCHANGED <<board, pre, arg, positions, cells_to_remove, possibilities, steps,
                   frame, depth, gui>>

\* One turn of `for num in range(1, 10)`: a valid digit is written and the
\* helper called, an invalid one passed over.
CountTry ==
    /\ op = "helper for"
    /\ Top.i <= Len(Top.nums)
    /\ IF is_valid(board, Top.cell[1], Top.cell[2], Top.nums[Top.i])
       THEN /\ board' = Put(board, Top.cell[1], Top.cell[2], Top.nums[Top.i])
            /\ stack' = Append(stack, Call(None))
            /\ op' = "_count_solutions_helper"
       ELSE /\ stack' = [stack EXCEPT ![Len(stack)] = [@ EXCEPT !.i = @ + 1]]
            /\ UNCHANGED <<board, op>>
    /\ UNCHANGED <<pre, arg, ret, positions, cells_to_remove, possibilities, steps,
                   frame, depth, gui>>

\* The digits are used up: the helper returns.
CountDone ==
    /\ op = "helper for"
    /\ Top.i > Len(Top.nums)
    /\ op' = "helper return"
    /\ UNCHANGED <<board, pre, arg, ret, locals>>

\* The innermost helper returns.  To count_solutions, which returns count[0];
\* the package's copy of the board is dropped, the caller's board being as it
\* was.  Or to the helper: the package returns at once when the limit is
\* reached and else clears the cell (lines 49-51); the top-level copy clears
\* the cell and then returns when the limit is reached (lines 54-56).
CountReturn ==
    /\ op = "helper return"
    /\ LET callers == SubSeq(stack, 1, Len(stack) - 1)
       IN  IF callers = <<>>
           THEN /\ op' = arg.fn
                /\ stack' = callers
                /\ board' = IF arg.fn = "count_solutions" THEN pre ELSE board
           ELSE LET caller == callers[Len(callers)]
                    cleared == Put(board, caller.cell[1], caller.cell[2], 0)
                IN  IF ret >= arg.limit
                    THEN /\ op' = "helper return"
                         /\ stack' = callers
                         /\ board' = IF arg.fn = "count_solutions" THEN board
                                     ELSE cleared
                    ELSE /\ op' = "helper for"
                         /\ board' = cleared
                         /\ stack' = [callers EXCEPT ![Len(callers)] =
                                          [@ EXCEPT !.i = @ + 1]]
    /\ UNCHANGED <<pre, arg, ret, positions, cells_to_remove, possibilities, steps,
                   frame, depth, gui>>

SearchNext ==
    \/ SolveCall \/ FillEnter \/ FillTry \/ FillFail \/ SolveReturned
    \/ CountCall \/ CountEnter \/ CountTry \/ CountDone \/ CountReturn

\* A caller that holds a board and calls solve_sudoku, count_solutions or
\* SudokuAI.solve on it; every state of the call is a state.
SpecEngineSteps == Init /\ [][SearchNext \/ AIStepNext]_vars

-----------------------------------------------------------------------------
(* SudokuGame: src/src/sudoku/gui/app.py *)

\* self.MAX_STACK_SIZE, which is 100 in the program, in the runs followed.
MAX_STACK_SIZE == 3

\* self.undo_stack.pop(0)
PopFirst(s) == SubSeq(s, 2, Len(s))

\* self.undo_stack.pop() (the list that is left)
PopLast(s) == SubSeq(s, 1, Len(s) - 1)

\* save_state that leaves the redo stack as it is.
save_state_no_clear(g) ==
    LET kept == IF Len(g.undo_stack) >= MAX_STACK_SIZE
                THEN PopFirst(g.undo_stack) ELSE g.undo_stack
    IN  [g EXCEPT !.undo_stack = Append(kept, g.board)]

\* save_state (lines 46-51)
save_state(g) ==
    LET kept == IF Len(g.undo_stack) >= MAX_STACK_SIZE
                THEN PopFirst(g.undo_stack) ELSE g.undo_stack
    IN  [g EXCEPT !.undo_stack = Append(kept, g.board), !.redo_stack = <<>>]

\* set_value that does not look at original.
set_value_no_original(g, row, col, value) ==
    IF 0 <= value /\ value <= 9
    THEN [game |-> [save_state(g) EXCEPT !.board = Put(g.board, row, col, value)],
          ret |-> TRUE]
    ELSE [game |-> g, ret |-> FALSE]

\* set_value (lines 35-44)
set_value(g, row, col, value) ==
    IF g.original[row][col] # 0 THEN [game |-> g, ret |-> FALSE]
    ELSE IF 0 <= value /\ value <= 9
    THEN [game |-> [save_state(g) EXCEPT !.board = Put(g.board, row, col, value)],
          ret |-> TRUE]
    ELSE [game |-> g, ret |-> FALSE]

can_undo(g) == g.undo_stack # <<>>

can_redo(g) == g.redo_stack # <<>>

\* undo that does not keep the board for redo.
undo_no_push(g) ==
    IF can_undo(g)
    THEN LET popped == g.undo_stack[Len(g.undo_stack)]
         IN  [game |-> [g EXCEPT !.board = popped,
                                 !.undo_stack = PopLast(@)],
              ret |-> popped]
    ELSE [game |-> g, ret |-> None]

\* undo (lines 59-65)
undo(g) ==
    IF can_undo(g)
    THEN LET popped == g.undo_stack[Len(g.undo_stack)]
         IN  [game |-> [g EXCEPT !.redo_stack = Append(@, g.board),
                                 !.board = popped,
                                 !.undo_stack = PopLast(@)],
              ret |-> popped]
    ELSE [game |-> g, ret |-> None]

\* redo (lines 67-73)
redo(g) ==
    IF can_redo(g)
    THEN LET popped == g.redo_stack[Len(g.redo_stack)]
         IN  [game |-> [g EXCEPT !.undo_stack = Append(@, g.board),
                                 !.board = popped,
                                 !.redo_stack = PopLast(@)],
              ret |-> popped]
    ELSE [game |-> g, ret |-> None]

\* clear (lines 75-82)
clear(g) ==
    [board |-> Zeros(Side(g.board)),
     original |-> Zeros(Side(g.board)),
     undo_stack |-> <<>>,
     redo_stack |-> <<>>]

\* The cells set_value is called on: a given of valid_board and two empty
\* cells.
GameCells == {<<0, 0>>, <<0, 2>>, <<1, 0>>}

\* The values set_value is called with: the ends of 0..9 and the values
\* next to them outside.
GameValues == {-1, 0, 9, 10}

\* A puzzle has been loaded (lines 404-405): board and original are the
\* puzzle, the stacks are empty.
GameInit ==
    /\ game = [board |-> valid_board, original |-> valid_board,
               undo_stack |-> <<>>, redo_stack |-> <<>>]
    /\ op = "idle"
    /\ board = valid_board
    /\ pre = None
    /\ arg = None
    /\ ret = None
    /\ positions = None
    /\ cells_to_remove = None
    /\ possibilities = None
    /\ steps = None
    /\ frame = None
    /\ stack = None
    /\ depth = None
    /\ timer = None

\* A call on the game that returns r.ret and leaves the game r.game; pre is
\* the game as the call found it.
GameCall(name, args, r) ==
    /\ op' = name
    /\ arg' = args
    /\ pre' = game
    /\ game' = r.game
    /\ ret' = r.ret
    /\ UNCHANGED <<board, others, depth, timer>>

SetValue ==
    \E x \in GameCells, value \in GameValues :
        GameCall("set_value", [row |-> x[1], col |-> x[2], value |-> value],
                 set_value(game, x[1], x[2], value))

SaveState == GameCall("save_state", None, [game |-> save_state(game), ret |-> None])

UndoMove == GameCall("undo", None, undo(game))

RedoMove == GameCall("redo", None, redo(game))

Clear == GameCall("clear", None, [game |-> clear(game), ret |-> None])

GameNext == SetValue \/ SaveState \/ UndoMove \/ RedoMove \/ Clear

SpecGame == GameInit /\ [][GameNext]_vars

\* The calls of C37: without clear, which makes every cell editable.
SpecGameLoaded == GameInit /\ [][SetValue \/ UndoMove \/ RedoMove]_vars

-----------------------------------------------------------------------------
(* GameTimer: src/src/sudoku/gui/timer.py, and the same class in app.py *)

\* The calls of master.after followed in one run.
MaxAfter == 5

\* GameTimer.__init__ (lines 20-24).  after is the set of callbacks Tk holds
\* scheduled and not yet fired or cancelled, next the identifier the next
\* call of master.after returns; start_time is the reading of the clock.
\* NoTime and NoId stand for None in start_time and _timer_id: identifiers
\* and readings of the clock are positive.
NoTime == 0

NoId == 0

\* time.time()
Clock == 1

TimerInit ==
    /\ timer = [running |-> FALSE, start_time |-> NoTime, timer_id |-> NoId,
                after |-> {}, next |-> 1]
    /\ op = "idle"
    /\ board = None
    /\ pre = None
    /\ arg = NoId
    /\ ret = FALSE
    /\ positions = None
    /\ cells_to_remove = None
    /\ possibilities = None
    /\ steps = None
    /\ frame = None
    /\ stack = None
    /\ depth = None
    /\ game = None

\* _update (lines 41-46) on the timer t: when running, the display callback
\* is called and _update scheduled again.  called tells whether the display
\* callback was called.
update(t) ==
    IF t.running /\ t.start_time # NoTime
    THEN [timer |-> [t EXCEPT !.timer_id = t.next,
                              !.after = @ \cup {t.next},
                              !.next = @ + 1],
          called |-> TRUE]
    ELSE [timer |-> t, called |-> FALSE]

\* start (lines 26-30)
start(t) == update([t EXCEPT !.start_time = Clock, !.running = TRUE])

\* stop (lines 32-37)
stop(t) ==
    IF t.timer_id # NoId
    THEN [t EXCEPT !.running = FALSE, !.after = @ \ {t.timer_id}, !.timer_id = NoId]
    ELSE [t EXCEPT !.running = FALSE]

\* A call on the timer or a firing: ret tells whether the display callback
\* was called, pre is the timer as the call found it.
TimerStart ==
    /\ timer.next <= MaxAfter
    /\ LET r == start(timer)
       IN  timer' = r.timer /\ ret' = r.called
    /\ op' = "start"
    /\ pre' = timer
    /\ arg' = NoId
    /\ UNCHANGED <<board, others, depth, game>>

TimerStop ==
    /\ timer' = stop(timer)
    /\ ret' = FALSE
    /\ op' = "stop"
    /\ pre' = timer
    /\ arg' = NoId
    /\ UNCHANGED <<board, others, depth, game>>

\* Tk fires one of the scheduled callbacks: it is no longer scheduled and
\* _update runs.
TimerFire ==
    /\ timer.next <= MaxAfter
    /\ \E id \in timer.after :
          LET r == update([timer EXCEPT !.after = @ \ {id}])
          IN  /\ timer' = r.timer
              /\ ret' = r.called
              /\ arg' = id
    /\ op' = "_update"
    /\ pre' = timer
    /\ UNCHANGED <<board, others, depth, game>>

TimerNext == TimerStart \/ TimerStop \/ TimerFire

SpecTimer == TimerInit /\ [][TimerNext]_vars

----------------------------------------------------------------------------
(* find_empty_cell_with_fewest_possibilities called on its own *)

\* The masks of b with the mask of the cell x replaced by bits.
WithMask(poss, x, bits) == [poss EXCEPT ![x[1]][x[2]] = bits]

\* The mask arrays the function is given with the board b: the masks of a
\* SudokuAI built on b, and those with one cell given any other mask.
MaskArrays(b) ==
    LET exact == SudokuAI(b).possibilities
    IN  {exact} \cup {WithMask(exact, x, bits) :
                         x \in Cells(b), bits \in 0..(2 ^ Side(b) - 1)}

\* The boards the function is given: the boards with few cells filled and
\* the solved grids, which have no empty cell.
FewestBoards == AIClueBoards \cup {PatternGrid(k) : k \in SmallBoxSides}

FewestInit ==
    /\ board \in FewestBoards
    /\ possibilities \in MaskArrays(board)
    /\ op = "idle"
    /\ pre = board
    /\ arg = None
    /\ ret = None
    /\ positions = None
    /\ cells_to_remove = None
    /\ steps = None
    /\ frame = None
    /\ stack = None
    /\ depth = None
    /\ game = None
    /\ timer = None

\* find_empty_cell_with_fewest_possibilities(board, possibilities)
Fewest ==
    /\ op = "idle"
    /\ op' = "find_empty_cell_with_fewest_possibilities"
    /\ ret' = find_empty_cell_with_fewest_possibilities(board, possibilities)
    /\ UNCHANGED <<board, pre, arg, locals>>

SpecFewest == FewestInit /\ [][Fewest]_vars

----------------------------------------------------------------------------
(* Claims *)

NoConflicts == [raised |-> FALSE, conflicts |-> {}]

Solved == op = "solve_sudoku"

Counted == op \in {"count_solutions", "root_count_solutions"}

\* The first empty cell of b can take at least k digits.
FirstCellTakes(b, k) ==
    /\ find_empty_cell(b) # None
    /\ Cardinality({num \in 1..Side(b) :
           is_valid(b, find_empty_cell(b)[1], find_empty_cell(b)[2], num)}) >= k

\* C1: find_conflicts returns exactly the cells whose non-zero digit occurs
\* again in their row, their column or their box.
C1_FindConflictsExact ==
    op = "find_conflicts" =>
        /\ ~ret.raised
        /\ ret.conflicts = Repeated(pre)

\* C2: on a board in which no non-zero digit repeats in a row, a column or a
\* box, find_conflicts returns the empty set.
C2_NoConflictsWithoutRepeat ==
    (op = "find_conflicts" /\ NoRepeat(pre)) => ret = NoConflicts

C2_Witness ==
    /\ op = "find_conflicts"
    /\ pre = valid_board
    /\ ret = NoConflicts

\* C3 as stated: whenever solve_sudoku returns true, on any input board, the
\* board is full and find_conflicts of it is empty.
C3_SolvedHasNoConflicts ==
    (Solved /\ ret = TRUE) =>
        /\ IsFull(board)
        /\ find_conflicts(board) = NoConflicts

\* C3 amended: whenever solve_sudoku returns true on an input board without a
\* repeated digit, the board is full, find_conflicts of it is empty and no
\* digit repeats in a row, a column or a box.
C3_SolvedValidHasNoConflicts ==
    (Solved /\ NoRepeat(pre) /\ ret = TRUE) =>
        /\ IsFull(board)
        /\ find_conflicts(board) = NoConflicts
        /\ NoRepeat(board)

C3_Witness ==
    /\ Solved
    /\ NoRepeat(pre)
    /\ Cardinality(Empties(pre)) > MaxHoleCells
    /\ ret = TRUE
    /\ IsFull(board)

\* C4: whenever solve_sudoku returns false, the board is cell for cell the
\* board it was called on.
C4_FailedSolveRestores ==
    (Solved /\ ret = FALSE) => board = pre

C4_Witness ==
    /\ Solved
    /\ ret = FALSE
    /\ FirstCellTakes(pre, 2)
    /\ board = pre

\* C5: on a board without a repeated digit, for every digit order, solve_sudoku
\* returns true exactly if the board has a completion, and then leaves the
\* board as one of its completions.
C5_SolveIffCompletion ==
    (Solved /\ NoRepeat(pre)) =>
        /\ ret = TRUE => IsCompletionOf(board, pre)
        /\ (ret = FALSE /\ Countable(pre)) => Completions(pre) = {}

C5_Witness ==
    /\ Solved
    /\ NoRepeat(pre)
    /\ FirstCellTakes(pre, 1)
    /\ ret = FALSE
    /\ Completions(pre) = {}

\* C6: solve_sudoku on the invalid-board fixture (two equal digits at (0, 0)
\* and (0, 1), every other cell empty) returns false.
C6_InvalidFixtureFails ==
    (Solved /\ IsInvalidFixture(pre)) => ret = FALSE

C6_Witness ==
    /\ Solved
    /\ IsInvalidFixture(pre)
    /\ ret = FALSE

C8_FullBoardUnchanged ==
    (Solved /\ IsFull(pre)) => (ret = TRUE /\ board = pre)

C8_Witness ==
    /\ Solved
    /\ pre = solved_board
    /\ ret = TRUE
    /\ board = solved_board

\* C9: on a board without a repeated digit, count_solutions(board, limit)
\* returns the smaller of limit and the number of completions of the board.
C9_CountIsMinLimitCompletions ==
    (Counted /\ NoRepeat(pre) /\ Countable(pre)) =>
        ret = Min(arg, Cardinality(Completions(pre)))

C9_Witness ==
    /\ op = "count_solutions"
    /\ NoRepeat(pre)
    /\ arg = MaxLimit
    /\ Cardinality(Completions(pre)) = 2
    /\ ret = 2

\* C10: count_solutions leaves the caller's board as it was, whether or not
\* the limit was reached.
C10_CountKeepsBoard ==
    Counted => board = pre

C10_Witness ==
    /\ op = "count_solutions"
    /\ ~IsFull(pre)
    /\ ret = arg
    /\ board = pre

----------------------------------------------------------------------------
(* Claims on generate_puzzle *)

InRemovalLoop == op = "removal_loop"

Generated == op = "generated"

\* np.count_nonzero(b)
count_nonzero(b) == Cardinality(Cells(b)) - Cardinality(Empties(b))

\* The number of cells generate_puzzle was asked to clear.
Target == CellsToRemove(arg.difficulty, Side(board))

\* The positions the removal loop has cleared and tested so far.
Visited ==
    Elems(IF arg.copy = "package" THEN Prefix(arg.order, Target) ELSE arg.order)
        \ Elems(positions)

\* The visited positions whose digit was put back.
Blocked == {x \in Visited : board[x[1]][x[2]] # 0}

\* count_solutions of the copy that generated the board.
OwnCount(b, limit) ==
    IF arg.copy = "package" THEN count_solutions(b, limit).ret
    ELSE root_count_solutions(b, limit).ret

\* C11: for every difficulty and every outcome of the random choices, the
\* board generate_puzzle returns has count_solutions(board, limit=2) = 1 and
\* is neither empty nor full.
C11_GeneratedHasOneSolution ==
    Generated =>
        /\ OwnCount(ret, 2) = 1
        /\ Cardinality(Completions(ret)) = 1
        /\ 0 < count_nonzero(ret)
        /\ count_nonzero(ret) < Cardinality(Cells(ret))

C11_Witness ==
    /\ Generated
    /\ arg.difficulty = "Hard"
    /\ Blocked # {}
    /\ Cardinality(Empties(ret)) > 1
    /\ OwnCount(ret, 2) = 1

C13_PackageTriesEveryPosition ==
    (Generated /\ arg.copy = "package" /\ Cardinality(Empties(ret)) < Target)
        => Visited = Cells(ret)

\* C14: the returned board has at most as many empty cells as the target of
\* its difficulty: 40 for Easy, 50 for Medium, 60 for Hard on the 9x9 board.
C14_AtMostTargetEmpty ==
    /\ CellsToRemove("Easy", BoxSide * BoxSide) = 40
    /\ CellsToRemove("Medium", BoxSide * BoxSide) = 50
    /\ CellsToRemove("Hard", BoxSide * BoxSide) = 60
    /\ (InRemovalLoop \/ Generated) =>
          /\ Cardinality(Empties(board)) <= Target
          /\ count_nonzero(board) >= Cardinality(Cells(board)) - Target

C14_Witness ==
    /\ Generated
    /\ arg.copy = "root"
    /\ Blocked # {}
    /\ positions # <<>>
    /\ Cardinality(Empties(ret)) = Target

\* C15: the board generate_puzzle returns has the shape of the board it
\* started from and no conflicts: find_conflicts of it is the empty set, no
\* non-zero digit repeats in a row, a column or a box.
C15_GeneratedHasNoConflicts ==
    Generated =>
        /\ DOMAIN ret = DOMAIN pre
        /\ \A r \in DOMAIN ret : DOMAIN ret[r] = DOMAIN pre[r]
        /\ find_conflicts(ret) = NoConflicts
        /\ NoRepeat(ret)

C15_Witness ==
    /\ Generated
    /\ arg.copy = "package"
    /\ Cardinality(Empties(ret)) = Target
    /\ find_conflicts(ret) = NoConflicts

----------------------------------------------------------------------------
(* Claims on SudokuAI *)

AISolved == op = "SudokuAI.solve"

Techniques ==
    {"Naked Single", "Hidden Single in Row", "Hidden Single in Column",
     "Hidden Single in Box", "Backtracking with MRV"}

\* The techniques of the logged steps.
Logged == {steps[i][4] : i \in DOMAIN steps}

\* solve returned true and no step of the search was logged.
PropagationOnly ==
    /\ AISolved
    /\ ret = TRUE
    /\ "Backtracking with MRV" \notin Logged

C17_FailedAISolveRestores ==
    (AISolved /\ ret = FALSE) => board = pre

\* C18: on a board without a repeated digit, SudokuAI.solve returns true
\* exactly if the board has a completion, and then leaves the board full,
\* without a repeated digit and with the givens kept.
C18_AISolveIffCompletion ==
    (AISolved /\ NoRepeat(pre) /\ Countable(pre)) =>
        /\ ret = TRUE <=> Completions(pre) # {}
        /\ ret = TRUE => (IsFull(board) /\ NoRepeat(board) /\ IsCompletionOf(board, pre))

C18_Witness ==
    /\ AISolved
    /\ NoRepeat(pre)
    /\ ret = TRUE
    /\ "Backtracking with MRV" \in Logged
    /\ Logged # {"Backtracking with MRV"}
    /\ Cardinality(Completions(pre)) > 1
    /\ IsCompletionOf(board, pre)

\* C19: no call of the engine raises an exception, on boards with a repeated
\* digit included.
C19_NoCallRaises ==
    ~(op = "find_conflicts" /\ ret.raised)

\* C20: every logged step has its row and column on the board, a digit
\* 1 .. 9 and one of the five technique labels.
C20_StepsWellFormed ==
    AISolved =>
        \A i \in DOMAIN steps :
            /\ steps[i][1] \in Idx(board)
            /\ steps[i][2] \in Idx(board)
            /\ steps[i][3] \in 1..Side(board)
            /\ steps[i][4] \in Techniques

----------------------------------------------------------------------------
(* Claims on the states SudokuAI.solve passes through *)

\* The solver exists: it has been constructed and is somewhere in solve.
InSolver == op # "idle"

\* The mask of the cell x says exactly which digits occur nowhere in the row,
\* the column or the box of x, and is 0 when x is filled.
MaskExact(b, poss, x) ==
    LET bits == poss[x[1]][x[2]]
    IN  IF b[x[1]][x[2]] # 0 THEN bits = 0
        ELSE /\ bits \in 0..(2 ^ Side(b) - 1)
             /\ \A d \in 1..Side(b) : HasBit(bits, d) <=> d \in Candidates(b, x)

MasksExact(b, poss) == \A x \in Cells(b) : MaskExact(b, poss, x)

\* C21: in every state of a SudokuAI between operations (after construction,
\* after each naked-single, hidden-single and backtracking placement and each
\* backtracking undo) the mask of every filled cell is 0 and the mask of every
\* empty cell has bit d-1 set exactly for the digits d that occur nowhere in the
\* cell's row, column or box; the placements and undos recompute only the
\* cells of the changed row, column and box.
C21_MasksExact == InSolver => MasksExact(board, possibilities)

\* A digit of the search has just been undone, after placements by hidden
\* singles, and empty cells remain.
C21_Witness ==
    /\ op = "for"
    /\ Top.i > 1
    /\ \E t \in Logged : t \notin {"Naked Single", "Backtracking with MRV"}
    /\ Cardinality(Empties(board)) > 1

\* hidden_singles is about to write the digit x.num into the cell of x.
HiddenPending == op = "hidden_singles" /\ frame.todo # <<>>

\* The cells of the unit u whose mask in poss contains the digit num.
HoldersOf(b, poss, u, num) ==
    {UnitOf(b, u)[j] : j \in {j \in 1..Side(b) :
        HasBit(poss[UnitOf(b, u)[j][1]][UnitOf(b, u)[j][2]], num)}}

\* C22: whenever hidden_singles writes a digit d into a cell X for a unit U,
\* X is empty and is the only cell of U whose mask, as it is at that moment,
\* contains d.
C22_HiddenPlacementJustified ==
    HiddenPending =>
        LET x == Head(frame.todo)
        IN  /\ board[x.row][x.col] = 0
            /\ HoldersOf(board, possibilities, x.unit, x.num) = {<<x.row, x.col>>}

\* The propagation loop of solve has just been left by `break`.
LoopLeft == op = "break"

\* C23: when the propagation loop of SudokuAI.solve exits, no empty cell has a
\* mask with exactly one bit set, and there is no unit (row, column or box)
\* and digit for which exactly one cell of the unit has the digit in its mask.
C23_PropagationFixedPoint ==
    LoopLeft =>
        /\ \A x \in Empties(board) :
              \A d \in 1..Side(board) : possibilities[x[1]][x[2]] # 2 ^ (d - 1)
        /\ \A u \in 0..(3 * Side(board) - 1) : \A d \in 1..Side(board) :
              Cardinality(HoldersOf(board, possibilities, u, d)) # 1

\* The loop is left after naked and hidden singles were placed, with cells
\* still empty that have candidates.
C23_Witness ==
    /\ LoopLeft
    /\ "Naked Single" \in Logged
    /\ \E t \in Logged : t # "Naked Single"
    /\ \E x \in Empties(board) : possibilities[x[1]][x[2]] # 0

\* The starting board has no repeated digit and at least one completion.
Completable == NoRepeat(pre) /\ Countable(pre) /\ Completions(pre) # {}

\* C24: for every starting board without a repeated digit that has at least
\* one completion, every digit written by naked_singles or hidden_singles into
\* a cell is the digit of that cell in every completion of the starting board,
\* so every completion of the starting board is still one of the board the
\* propagation leaves.  Every such write is logged in steps, and when the loop
\* is left the steps are those of the propagation.
C24_PropagationNeverGuesses ==
    (LoopLeft /\ Completable) =>
        \A g \in Completions(pre) :
            /\ \A k \in DOMAIN steps : g[steps[k][1]][steps[k][2]] = steps[k][3]
            /\ IsCompletionOf(g, board)

\* Naked and hidden singles have written into a board with several
\* completions.
C24_Witness ==
    /\ LoopLeft
    /\ Completable
    /\ Cardinality(Completions(pre)) > 1
    /\ "Naked Single" \in Logged
    /\ \E t \in Logged : t # "Naked Single"

----------------------------------------------------------------------------
(* Claims on find_empty_cell_with_fewest_possibilities *)

FewestReturned == op = "find_empty_cell_with_fewest_possibilities"

\* The number of candidate digits the mask array gives the cell x.
Options(poss, x) ==
    Cardinality({d \in 1..Side(board) : HasBit(poss[x[1]][x[2]], d)})

\* x comes before y, or is y, in the order of range(9) x range(9).
RowMajorLeq(x, y) == x[1] < y[1] \/ (x[1] = y[1] /\ x[2] <= y[2])

\* x is the first, in row-major order, of the cells of S.
FirstOf(x, S) == x \in S /\ \A y \in S : RowMajorLeq(x, y)

\* The empty cells with the fewest candidates.
Fewests ==
    {x \in Empties(board) :
        \A y \in Empties(board) : Options(possibilities, x) <= Options(possibilities, y)}

\* The empty cells with at most one candidate.
Forced == {x \in Empties(board) : Options(possibilities, x) <= 1}

----------------------------------------------------------------------------
(* Claims on backtrack_solve *)

\* The call f of backtrack_solve was made on a board in which some empty cell
\* has no candidate digit.
DeadEnd(f) ==
    \E x \in Empties(f.entry.board) : f.entry.possibilities[x[1]][x[2]] = 0

\* The active calls of backtrack_solve, by their depth.
Calls == IF op \in {"backtrack_solve", "for", "return"} THEN DOMAIN stack ELSE {}

\* The call at depth k has chosen its cell and stands in or after its loop.
InLoop(k) == k < Len(stack) \/ op = "for" \/ (op = "return" /\ stack[k].cell # None)

ForcedAt(f) ==
    {x \in Empties(f.entry.board) :
        \E d \in 0..Side(board) : f.entry.possibilities[x[1]][x[2]] = (2 ^ d) \div 2}

ReturnsFalse == op = "return" /\ ret = FALSE

\* C27: whenever a call of SudokuAI.backtrack_solve returns false, the board
\* and the possibility masks are what they were at entry to that call.
C27_FailedCallRestores ==
    ReturnsFalse =>
        /\ board = Top.entry.board
        /\ possibilities = Top.entry.possibilities

\* A call that is itself nested returns false after it tried several digits,
\* each with a search below it.
C27_Witness ==
    /\ ReturnsFalse
    /\ Len(stack) > 1
    /\ Len(Top.nums) > 1
    /\ Len(steps) > Len(Top.entry.steps) + Len(Top.nums)

-----------------------------------------------------------------------------
(* Claims on step 1 of generate_puzzle *)

\* solve_sudoku has returned to generate_puzzle, which is about to remove
\* cells.
Filled == op = "removal_loop" /\ stack = <<>>

\* C28: before any cell is removed generate_puzzle holds a fully solved grid:
\* every cell is non-zero and no digit repeats in a row, column or box; in
\* the package copy solve_sudoku has succeeded on the diagonal boxes, which
\* are in the grid as they were written.
C28_FilledGridSolved ==
    Filled =>
        /\ IsFull(board)
        /\ NoRepeat(board)
        /\ ret = TRUE
        /\ \A x \in Cells(pre) : pre[x[1]][x[2]] # 0 => board[x[1]][x[2]] = pre[x[1]][x[2]]

\* The package copy has filled a grid around three different diagonal boxes
\* with a digit order that is not 1..9.
C28_Witness ==
    /\ Filled
    /\ arg.copy = "package"
    /\ arg.boxes[1] # arg.boxes[2]
    /\ arg.boxes[2] # arg.boxes[3]
    /\ arg.boxes[1] # arg.boxes[3]
    /\ arg.numbers # Rotated(Side(board), 0)
    /\ IsFull(board)
    /\ NoRepeat(board)

----------------------------------------------------------------------------
(* Claims on the depth of the recursions *)

\* A call of solve_sudoku or count_solutions has returned.
Searched == op \in {"solve_sudoku", "count_solutions", "root_count_solutions"}

\* The cells that were empty when backtrack_solve was first called.
EmptyAtFirstCall == Cardinality(Empties(stack[1].entry.board))

\* C29: in solve_sudoku, count_solutions and SudokuAI.backtrack_solve the
\* number of calls active at once never exceeds the number of cells that
\* were empty at the top-level call plus one, nor the number of cells plus
\* one; every nested call of backtrack_solve is entered with exactly one more
\* filled cell than its caller.
C29_DepthBounded ==
    /\ Searched =>
          /\ depth <= Cardinality(Empties(pre)) + 1
          /\ depth <= Cardinality(Cells(pre)) + 1
    /\ Calls # {} =>
          /\ Len(stack) <= EmptyAtFirstCall + 1
          /\ Len(stack) <= Cardinality(Cells(board)) + 1
          /\ \A k \in 2..Len(stack) :
                count_nonzero(stack[k].entry.board)
                    = count_nonzero(stack[k - 1].entry.board) + 1

\* The search of SudokuAI reaches the bound: with many cells empty at the
\* first call, as many calls as cells were empty, and one more, are active.
C29_Witness ==
    /\ Calls # {}
    /\ EmptyAtFirstCall > MaxHoleCells
    /\ Len(stack) = EmptyAtFirstCall + 1

----------------------------------------------------------------------------
(* Claims on the termination of SudokuAI.solve *)

\* A round of the propagation loop has ended with progress: the loop stands
\* at `while True` again.
RoundDone == op = "solve" /\ frame # None

\* Every round that reports progress leaves strictly more filled cells than
\* there were when it began.
RoundGains == RoundDone => count_nonzero(board) > count_nonzero(frame.entry.board)

\* C30: SudokuAI.solve runs to completion on every starting board: every
\* round of the propagation loop that reports progress leaves strictly more
\* filled cells than the round before, and once the solver is built, solve
\* returns.
C30_SolveTerminates ==
    /\ [](RoundGains)
    /\ InSolver ~> AISolved

\* solve has returned after a round of hidden singles and a search that
\* failed.
C30_Witness ==
    /\ AISolved
    /\ ret = FALSE
    /\ \E u \in 0..2 : TechniqueOf(u) \in Logged
    /\ "Backtracking with MRV" \in Logged

-----------------------------------------------------------------------------
(* Claims on the boards SudokuAI.solve passes through *)

\* C31: when the starting board has no digit repeated in a row, column or
\* box, no state of SudokuAI.solve has one: not after a placement of the
\* propagation, nor after a placement or an undo of the search.
C31_NoConflictIntroduced == (InSolver /\ NoRepeat(pre)) => NoRepeat(board)

\* The search has taken a digit back after the propagation made placements,
\* on a starting board without a repeat.
C31_Witness ==
    /\ NoRepeat(pre)
    /\ op = "for"
    /\ Top.i > 1
    /\ \E i \in DOMAIN steps : steps[i][4] # "Backtracking with MRV"
    /\ board # pre

-----------------------------------------------------------------------------
(* Claims on the step log *)

\* The records of log from the i-th on written onto b in log order
\* (self.game.board[row, col] = num of _show_next_ai_step).
RECURSIVE Replay(_, _, _)
Replay(b, log, i) ==
    IF i > Len(log) THEN b
    ELSE Replay(Put(b, log[i][1], log[i][2], log[i][3]), log, i + 1)

\* A step of the solver leaves every record of the log in its place.
StepsKept ==
    (op # "idle" /\ op' # "idle") =>
        /\ Len(steps') >= Len(steps)
        /\ SubSeq(steps', 1, Len(steps)) = steps

\* The log holds a record that a later record of the same cell overwrites
\* with another digit.
HasOverwritten ==
    \E i \in DOMAIN steps : \E j \in DOMAIN steps :
        /\ i < j
        /\ steps[i][1] = steps[j][1]
        /\ steps[i][2] = steps[j][2]
        /\ steps[i][3] # steps[j][3]

\* C32: the step log is append-only (placements the search takes back stay in
\* it), and whenever SudokuAI.solve returns true, the records written in log
\* order onto the starting board give exactly the final board.
C32_LogReplays ==
    /\ [][StepsKept]_vars
    /\ []((op = "SudokuAI.solve" /\ ret = TRUE) => Replay(pre, steps, 1) = board)

\* solve has returned true with a log that holds a placement taken back.
C32_Witness ==
    /\ op = "SudokuAI.solve"
    /\ ret = TRUE
    /\ HasOverwritten
    /\ "Backtracking with MRV" \in Logged

-----------------------------------------------------------------------------
(* Claims on the cells the engine writes *)

\* A call of the engine is under way or has returned.
InCall == op # "idle"

\* The cells that were filled when the call was made.
Givens == {x \in Cells(pre) : pre[x[1]][x[2]] # 0}

\* C33: a cell that is non-zero when solve_sudoku, count_solutions or
\* SudokuAI.solve is called keeps its value in every state of the call and
\* after it, whether the call succeeds or fails: only cells that were empty at
\* entry are assigned or reset.
C33_GivensKept ==
    InCall => \A x \in Givens : board[x[1]][x[2]] = pre[x[1]][x[2]]

\* A search on a board with givens has written a cell and taken a digit back.
C33_Witness ==
    /\ op \in {"solve_sudoku for", "helper for", "for"}
    /\ Givens # {}
    /\ Top.i > 1
    /\ board # pre
    /\ \A x \in Givens : board[x[1]][x[2]] = pre[x[1]][x[2]]

-----------------------------------------------------------------------------
(* Claims on the two copies of count_solutions *)

\* C34: the two copies agree on counting: for every board and limit,
\* count_solutions of src/sudoku_core.py, which searches the caller's array,
\* and count_solutions of the package, which searches a copy, return the same
\* number, and both leave the caller's board as it was before the call.
C34_CopiesAgree ==
    Counted =>
        LET package == count_solutions(pre, arg)
            root == root_count_solutions(pre, arg)
        IN  /\ package.ret = root.ret
            /\ package.board = pre
            /\ root.board = pre
            /\ ret = root.ret
            /\ board = pre

\* The top-level copy has stopped at a limit above 1 on a board with empty
\* cells: digits it had written were on the array when the limit was reached.
C34_Witness ==
    /\ op = "root_count_solutions"
    /\ arg >= 2
    /\ ret = arg
    /\ Empties(pre) # {}
    /\ count_solutions(pre, arg).ret = arg

-----------------------------------------------------------------------------
(* Claims on SudokuGame *)

\* set_value has just returned True.
ValueSet == op = "set_value" /\ ret = TRUE

\* C35: after a successful set_value made from the board B, undo() restores
\* the board to exactly B and a following redo() restores exactly the board
\* as it was after the set_value; a successful set_value leaves the redo
\* stack empty.
C35_UndoRedoRoundTrip ==
    ValueSet =>
        LET undone == undo(game)
            redone == redo(undone.game)
        IN  /\ game.redo_stack = <<>>
            /\ undone.game.board = pre.board
            /\ redone.game.board = game.board

\* A set_value that changed the board was made with the undo stack full.
C35_Witness ==
    /\ ValueSet
    /\ game.board # pre.board
    /\ Len(pre.undo_stack) = MAX_STACK_SIZE
    /\ Len(game.undo_stack) = MAX_STACK_SIZE

\* C36: in every state reached by set_value, save_state, undo, redo and
\* clear the undo stack holds at most MAX_STACK_SIZE snapshots, although redo
\* pushes onto it without looking at the cap.
C36_UndoStackCapped ==
    game # None => Len(game.undo_stack) <= MAX_STACK_SIZE

\* redo has pushed the snapshot that fills the undo stack.
C36_Witness ==
    /\ op = "redo"
    /\ ret # None
    /\ Len(game.undo_stack) = MAX_STACK_SIZE
    /\ Len(pre.undo_stack) = MAX_STACK_SIZE - 1

\* set_value was called on a given or with a value outside 0..9.
Rejected ==
    /\ op = "set_value"
    /\ \/ pre.original[arg.row][arg.col] # 0
       \/ arg.value < 0
       \/ arg.value > 9

\* C37: set_value on a given cell or with a value outside 0..9 returns False
\* and leaves the board, the undo stack and the redo stack as they were; and
\* from a loaded puzzle with empty stacks no sequence of set_value, undo and
\* redo changes the value of a given cell.
C37_RejectsWithoutEffect ==
    /\ Rejected => (ret = FALSE /\ game = pre)
    /\ game # None =>
          \A x \in Cells(valid_board) :
              valid_board[x[1]][x[2]] # 0 => game.board[x[1]][x[2]] = valid_board[x[1]][x[2]]

\* set_value with a value of 0..9 was turned down on a given cell while both
\* stacks held snapshots.
C37_Witness ==
    /\ Rejected
    /\ ret = FALSE
    /\ arg.value \in 0..9
    /\ pre.undo_stack # <<>>
    /\ pre.redo_stack # <<>>
    /\ game.board # valid_board

-----------------------------------------------------------------------------
(* Claims on GameTimer *)

\* At most one _update callback is scheduled.
OnePending == Cardinality(timer.after) <= 1

\* A firing calls the display callback only when the timer is running: not
\* between a stop() and the next start().
SilentWhenStopped == (op = "_update" /\ ret) => pre.running

\* C38: under any interleaving of start(), stop() and firings of the scheduled
\* _update callback, at most one _update callback is pending at any time, and
\* after stop() no firing calls the display callback until the next start().
C38_OneCallbackPending == OnePending /\ SilentWhenStopped

====
